---- MODULE Spec2Model ----
(***************************************************************************)
(* Model of the Gitea pages handler of giteapages.go: request resolution,  *)
(* the TTL-driven repository cache, archive extraction and file serving.   *)
(*                                                                         *)
(* Strings are sequences of one-character strings, so that the code's      *)
(* string operations (Split, Trim, HasPrefix, filepath.Join/Clean) are     *)
(* computed character by character as the Go library computes them.        *)
(***************************************************************************)
EXTENDS Integers, Sequences, FiniteSets, TLC

VARIABLES
    repos,      \* gp.cache.repos: cache key -> cacheEntry [lastUpdate, path]
    files,      \* the file system: path of a regular file -> its bytes
    dirs,       \* the file system: the set of paths that are directories
    modes,      \* the file system: path -> its permission bits
    now,        \* the wall clock (time.Now), in TTL units
    mu,         \* gp.cache.mu, the sync.RWMutex of the cache: w, the goroutine
                \* that has called Lock and not yet Unlock (0: none); r, the
                \* goroutines between RLock and RUnlock
    procs,      \* per goroutine: position in ServeHTTP and its locals
    started,    \* number of requests accepted so far
    env,        \* the surroundings, fixed in a behaviour: clients, the requests
                \* [host, path] that are sent; remote, the archives the Gitea
                \* server answers with; audit, whether a refresh records the
                \* entry and files it found when it started; repoBranch, the
                \* default branch Gitea reports; private, whether Gitea asks
                \* for a token; metaStatus and archStatus, the statuses of
                \* its two endpoints; root, whether the server process is
                \* the superuser; and the configuration: url (gp.GitteaURL),
                \* token (gp.GitteaToken), mappings (gp.DomainMappings),
                \* auto (gp.AutoMapping)
    validated   \* what Validate returned: Pending before it ran, else its error

vars == <<repos, files, dirs, modes, now, mu, procs, started, env, validated>>

(***************************************************************************)
(* strings                                                                 *)
(***************************************************************************)
SLASH == "/"

\* strings.HasPrefix(s, prefix)
HasPrefix(s, prefix) ==
    /\ Len(prefix) <= Len(s)
    /\ SubSeq(s, 1, Len(prefix)) = prefix

\* strings.Index(s, c) for a one-character c; 0 stands for Go's -1, and
\* positions are 1-based
IndexOf(s, c) ==
    IF \E i \in 1..Len(s) : s[i] = c
    THEN CHOOSE i \in 1..Len(s) : s[i] = c /\ \A j \in 1..(i-1) : s[j] # c
    ELSE 0

\* strings.Split(s, sep) for a one-character sep: always at least one part
RECURSIVE Split(_, _)
Split(s, sep) ==
    LET i == IndexOf(s, sep) IN
    IF i = 0 THEN <<s>>
    ELSE <<SubSeq(s, 1, i-1)>> \o Split(SubSeq(s, i+1, Len(s)), sep)

\* strings.Join(parts, sep)
RECURSIVE JoinWith(_, _)
JoinWith(parts, sep) ==
    IF Len(parts) = 0 THEN <<>>
    ELSE IF Len(parts) = 1 THEN parts[1]
    ELSE parts[1] \o <<sep>> \o JoinWith(Tail(parts), sep)

\* strings.TrimLeft / TrimRight / Trim(s, c) for a one-character cutset
RECURSIVE TrimLeft(_, _)
TrimLeft(s, c) ==
    IF Len(s) > 0 /\ s[1] = c THEN TrimLeft(Tail(s), c) ELSE s

RECURSIVE TrimRight(_, _)
TrimRight(s, c) ==
    IF Len(s) > 0 /\ s[Len(s)] = c THEN TrimRight(SubSeq(s, 1, Len(s)-1), c) ELSE s

Trim(s, c) == TrimRight(TrimLeft(s, c), c)

\* strings.ReplaceAll(s, old, new) for a non-empty old
RECURSIVE ReplaceAll(_, _, _)
ReplaceAll(s, old, new) ==
    IF Len(s) = 0 THEN <<>>
    ELSE IF HasPrefix(s, old)
         THEN new \o ReplaceAll(SubSeq(s, Len(old)+1, Len(s)), old, new)
         ELSE <<s[1]>> \o ReplaceAll(Tail(s), old, new)

\* strings.Contains(s, sub)
Contains(s, sub) ==
    \E i \in 0..(Len(s) - Len(sub)) : SubSeq(s, i+1, i+Len(sub)) = sub

(***************************************************************************)
(* path/filepath (Unix)                                                    *)
(***************************************************************************)
DOT    == <<".">>
DOTDOT == <<".", ".">>

\* the element stack filepath.Clean keeps while it scans the elements
RECURSIVE CleanElems(_, _, _)
CleanElems(elems, rooted, out) ==
    IF Len(elems) = 0 THEN out
    ELSE LET e == Head(elems) rest == Tail(elems) IN
         IF e = <<>> \/ e = DOT THEN CleanElems(rest, rooted, out)
         ELSE IF e = DOTDOT
              THEN IF Len(out) > 0 /\ out[Len(out)] # DOTDOT
                   THEN CleanElems(rest, rooted, SubSeq(out, 1, Len(out)-1))
                   ELSE IF rooted THEN CleanElems(rest, rooted, out)
                   ELSE CleanElems(rest, rooted, Append(out, e))
              ELSE CleanElems(rest, rooted, Append(out, e))

\* filepath.Clean(p)
Clean(p) ==
    IF Len(p) = 0 THEN DOT
    ELSE LET rooted == p[1] = SLASH
             body   == JoinWith(CleanElems(Split(p, SLASH), rooted, <<>>), SLASH)
             r      == (IF rooted THEN <<SLASH>> ELSE <<>>) \o body
         IN IF Len(r) = 0 THEN DOT ELSE r

\* filepath.Join(a, b): empty elements are ignored, the rest joined and cleaned
FilepathJoin(a, b) ==
    IF Len(a) = 0 /\ Len(b) = 0 THEN <<>>
    ELSE IF Len(a) = 0 THEN Clean(b)
    ELSE IF Len(b) = 0 THEN Clean(a)
    ELSE Clean(a \o <<SLASH>> \o b)

\* the last index of a separator in p, 0 if none
LastSlash(p) ==
    IF \E i \in 1..Len(p) : p[i] = SLASH
    THEN CHOOSE i \in 1..Len(p) : p[i] = SLASH /\ \A j \in (i+1)..Len(p) : p[j] # SLASH
    ELSE 0

\* filepath.Dir(p)
Dir(p) == Clean(SubSeq(p, 1, LastSlash(p)))

(***************************************************************************)
(* configuration (the GitteaPages struct after Provision)                  *)
(***************************************************************************)
EMPTY == <<>>
COLON == ":"

\* gp.CacheDir
CacheDir == <<"/", "c">>

\* gp.CacheTTL, in clock units
CacheTTL == 1

\* gp.DefaultBranch
DefaultBranch == <<"m">>

\* gp.IndexFiles, in configured order
IndexFiles == << <<"i">>, <<"j">> >>

\* gp.DomainMappings: host "a" is o/r on the default branch, host "b" is
\* o/r on branch m2
DomainMappings ==
    << [Domain |-> <<"a">>, Owner |-> <<"o">>, Repository |-> <<"r">>, Branch |-> EMPTY],
       [Domain |-> <<"b">>, Owner |-> <<"o">>, Repository |-> <<"r">>, Branch |-> <<"m", "2">>] >>

\* gp.AutoMapping: nil
NoAutoMapping ==
    [Present |-> FALSE, Enabled |-> FALSE, Pattern |-> EMPTY, Owner |-> EMPTY,
     RepoFormat |-> EMPTY, Branch |-> EMPTY]

AutoMapping == NoAutoMapping

\* gp.GitteaURL
GitteaURL == <<"h">>

\* error values: nil, and the error of Validate
NoError == ""
ErrURLRequired == "gitea_url is required"
Pending == "pending"

\* a Validate that accepts every URL
ValidateAny(url) == NoError

\* Validate()
Validate(url) == IF url = EMPTY THEN ErrURLRequired ELSE NoError

(***************************************************************************)
(* resolver                                                                *)
(***************************************************************************)
PatDomain    == <<"{", "d", "o", "m", "a", "i", "n", "}">>
PatSubdomain == <<"{", "s", "u", "b", "d", "o", "m", "a", "i", "n", "}">>
PatInput     == <<"{", "i", "n", "p", "u", "t", "}">>
PatUser      == <<"{", "u", "s", "e", "r", "}">>
Pages        == <<"p", "a", "g", "e", "s">>
PatSubDotDomain == PatSubdomain \o <<".">> \o PatDomain
PatUserPages    == PatUser \o <<".">> \o Pages \o <<".">> \o PatDomain

NoMatch == [owner |-> EMPTY, repo |-> EMPTY, filePath |-> EMPTY, branch |-> EMPTY]

\* formatRepoName(input, format)
formatRepoName(input, format) ==
    IF format = EMPTY THEN input
    ELSE ReplaceAll(ReplaceAll(ReplaceAll(format, PatDomain, input),
                               PatSubdomain, input),
                    PatInput, input)

\* a pattern switch that expands the repo format with the whole host
AutoRepoWholeHost(host, auto) ==
    [repo |-> formatRepoName(host, auto.RepoFormat),
     owner |-> IF auto.Pattern = PatUserPages THEN Head(Split(host, "."))
               ELSE auto.Owner]

\* a pattern switch that keeps the rule's owner for user pages
AutoRepoKeepsOwner(host, auto) ==
    LET parts == Split(host, ".") IN
    IF auto.Pattern = PatUserPages
    THEN IF Len(parts) >= 3 /\ parts[2] = Pages
         THEN [repo |-> formatRepoName(host, auto.RepoFormat), owner |-> auto.Owner]
         ELSE [repo |-> EMPTY, owner |-> auto.Owner]
    ELSE [repo |-> formatRepoName(parts[1], auto.RepoFormat), owner |-> auto.Owner]

\* a pattern switch whose default case expands the repo format, as the
\* {subdomain}.{domain} case does
AutoRepoFormatted(host, auto) ==
    [repo |-> formatRepoName(Head(Split(host, ".")), auto.RepoFormat),
     owner |-> auto.Owner]

\* the repo and owner the pattern switch of resolveAutoMapping computes
AutoRepoOwner(host, auto) ==
    LET parts == Split(host, ".") IN
    IF auto.Pattern = PatDomain
    THEN [repo |-> formatRepoName(host, auto.RepoFormat), owner |-> auto.Owner]
    ELSE IF auto.Pattern = PatSubDotDomain
    THEN IF Len(parts) >= 2
         THEN [repo |-> formatRepoName(parts[1], auto.RepoFormat), owner |-> auto.Owner]
         ELSE [repo |-> EMPTY, owner |-> auto.Owner]
    ELSE IF auto.Pattern = PatUserPages
    THEN IF Len(parts) >= 3 /\ parts[2] = Pages
         THEN [repo |-> formatRepoName(host, auto.RepoFormat), owner |-> parts[1]]
         ELSE [repo |-> EMPTY, owner |-> auto.Owner]
    ELSE LET p1 == IF Contains(auto.Pattern, PatDomain)
                   THEN ReplaceAll(auto.Pattern, PatDomain, host)
                   ELSE auto.Pattern
             p2 == IF Contains(p1, PatSubdomain)
                   THEN ReplaceAll(p1, PatSubdomain, parts[1])
                   ELSE p1
         IN [repo |-> p2, owner |-> auto.Owner]

\* a resolver that returns what the pattern switch computed without
\* validating it
resolveAutoMappingPartial(host, filePath, auto) ==
    IF ~auto.Present THEN NoMatch
    ELSE [owner |-> AutoRepoOwner(host, auto).owner,
          repo |-> AutoRepoOwner(host, auto).repo,
          filePath |-> filePath, branch |-> auto.Branch]

\* resolveAutoMapping(host, filePath)
resolveAutoMapping(host, filePath, auto) ==
    IF ~auto.Present THEN NoMatch
    ELSE LET ro == AutoRepoOwner(host, auto) IN
         IF ro.owner = EMPTY \/ ro.repo = EMPTY THEN NoMatch
         ELSE [owner |-> ro.owner, repo |-> ro.repo, filePath |-> filePath,
               branch |-> auto.Branch]

\* the last explicit mapping whose domain is the host
LastMapping(mappings, host) ==
    LET hits == {i \in 1..Len(mappings) : mappings[i].Domain = host} IN
    IF hits = {} THEN 0 ELSE CHOOSE i \in hits : \A j \in hits : j <= i

\* the first explicit mapping, in configured order, whose domain is the host
RECURSIVE FirstMapping(_, _)
FirstMapping(mappings, host) ==
    IF Len(mappings) = 0 THEN 0
    ELSE IF Head(mappings).Domain = host THEN 1
    ELSE LET i == FirstMapping(Tail(mappings), host) IN
         IF i = 0 THEN 0 ELSE i + 1

\* the host with its port removed
StripPort(host) ==
    LET colonIndex == IndexOf(host, COLON) IN
    IF colonIndex # 0 THEN SubSeq(host, 1, colonIndex - 1) ELSE host

\* resolveDomainMapping(r), for r.Host and r.URL.Path
resolveDomainMapping(rhost, urlPath, mappings, auto) ==
    LET host     == StripPort(rhost)
        filePath == Trim(urlPath, SLASH)
        i        == FirstMapping(mappings, host)
    IN IF i # 0
       THEN [owner |-> mappings[i].Owner, repo |-> mappings[i].Repository,
             filePath |-> filePath, branch |-> mappings[i].Branch]
       ELSE IF auto.Present /\ auto.Enabled
            THEN resolveAutoMapping(host, filePath, auto)
            ELSE NoMatch

\* a fallback that splits the path without trimming its slashes
RouteUntrimmed(rhost, urlPath, mappings, auto) ==
    LET m     == resolveDomainMapping(rhost, urlPath, mappings, auto)
        parts == Split(urlPath, SLASH)
    IN IF m.owner = EMPTY \/ m.repo = EMPTY
       THEN IF Len(parts) < 2
            THEN [handled |-> FALSE] @@ NoMatch
            ELSE [handled |-> TRUE, owner |-> parts[1], repo |-> parts[2],
                  filePath |-> JoinWith(SubSeq(parts, 3, Len(parts)), SLASH),
                  branch |-> m.branch]
       ELSE [handled |-> TRUE] @@ m

\* the part of ServeHTTP before the cache is touched: the mapping, or the
\* path-based fallback; handled is FALSE when the request goes to next
Route(rhost, urlPath, mappings, auto) ==
    LET m     == resolveDomainMapping(rhost, urlPath, mappings, auto)
        parts == Split(Trim(urlPath, SLASH), SLASH)
    IN IF m.owner = EMPTY \/ m.repo = EMPTY
       THEN IF Len(parts) < 2
            THEN [handled |-> FALSE] @@ NoMatch
            ELSE [handled |-> TRUE, owner |-> parts[1], repo |-> parts[2],
                  filePath |-> JoinWith(SubSeq(parts, 3, Len(parts)), SLASH),
                  branch |-> m.branch]
       ELSE [handled |-> TRUE] @@ m

\* a ServeHTTP that passes the resolver's branch on as it is
ServeBranchRaw(branch) == branch

\* the branch ServeHTTP serves from
ServeBranch(branch) == IF branch = EMPTY THEN DefaultBranch ELSE branch

\* fmt.Sprintf("%s/%s", owner, repo)
RepoKey(owner, repo) == owner \o <<SLASH>> \o repo

\* fmt.Sprintf("%s:%s", repoKey, branch)
CacheKey(repoKey, branch) == repoKey \o <<COLON>> \o branch

\* filepath.Join(gp.cache.cacheDir, cacheKey)
KeyPath(cacheKey) == FilepathJoin(CacheDir, cacheKey)

(***************************************************************************)
(* file system                                                             *)
(***************************************************************************)
ROOT == <<SLASH>>

\* permission bits: rw-r--r-- and rwxr-xr-x
Mode0644 == 420
Mode0755 == 493

\* the owner's write bit (0200) and search bit (0100) of a mode
OwnerWrite(mode) == (mode \div 128) % 2 = 1
OwnerExec(mode) == (mode \div 64) % 2 = 1

\* p is root itself or lies beneath it component by component
IsUnder(p, root) ==
    \/ p = root
    \/ root = ROOT /\ HasPrefix(p, ROOT)
    \/ HasPrefix(p, root \o <<SLASH>>)

\* p and every directory above it
Ancestors(p) ==
    {ROOT} \cup {p} \cup {SubSeq(p, 1, i-1) : i \in {j \in 2..Len(p) : p[j] = SLASH}}

\* the names directly inside directory d
Children(fs, ds, d) == {q \in (DOMAIN fs \cup ds) \ {d} : Dir(q) = d}

\* the process, owner of everything in the cache, may look names up in
\* directory d; the superuser may always
CanSearch(ms, d) == env.root \/ OwnerExec(ms[d])

\* the process may create and remove names in directory d
CanChange(ms, d) == env.root \/ (OwnerWrite(ms[d]) /\ OwnerExec(ms[d]))

\* the modes of the paths that exist
Restrict(ms, fs, ds) == [q \in DOMAIN fs \cup ds |-> ms[q]]

\* os.RemoveAll(p) run to its end: the regular files that remain
RemoveAllFiles(fs, p) ==
    [q \in {x \in DOMAIN fs : ~IsUnder(x, p)} |-> fs[q]]

\* os.RemoveAll(p) run to its end: the directories that remain
RemoveAllDirs(ds, p) == {d \in ds : ~IsUnder(d, p)}

\* os.Stat(p): "ok", "notexist" (ENOENT) or "error" (ENOTDIR: a component of
\* the path is a regular file; EACCES: a directory above p cannot be
\* searched)
Stat(fs, ds, ms, p) ==
    LET above == Ancestors(p) \ {p} IN
    IF \E a \in above : a \in DOMAIN fs \/ (a \in ds /\ ~CanSearch(ms, a))
    THEN "error"
    ELSE IF p \in DOMAIN fs \/ p \in ds THEN "ok"
    ELSE "notexist"

\* os.MkdirAll(p, mode): [ok, dirs, modes].  A path that exists must be a
\* directory; otherwise the parent is made first and then p, each new
\* directory with this mode; the directories made before a failure remain
RECURSIVE MkdirAll(_, _, _, _, _)
MkdirAll(fs, ds, ms, p, mode) ==
    IF Stat(fs, ds, ms, p) = "ok"
    THEN [ok |-> p \in ds, dirs |-> ds, modes |-> ms]
    ELSE IF p = ROOT
    THEN [ok |-> FALSE, dirs |-> ds, modes |-> ms]
    ELSE LET par == MkdirAll(fs, ds, ms, Dir(p), mode) IN
         IF ~par.ok THEN par
         ELSE IF p \in DOMAIN fs \cup par.dirs \/ ~CanChange(par.modes, Dir(p))
         THEN [par EXCEPT !.ok = FALSE]
         ELSE [ok |-> TRUE, dirs |-> par.dirs \cup {p},
               modes |-> [q \in DOMAIN par.modes \cup {p} |->
                            IF q = p THEN mode ELSE par.modes[q]]]

\* err == nil after os.MkdirAll
MkdirAllOk(made) == made.ok

\* os.OpenFile(p, O_CREATE|O_WRONLY, mode): [ok, files, modes].  A file that
\* exists is opened as it is, without O_TRUNC, if the process may write it;
\* otherwise an empty file with this mode is created in the parent
OpenFile(fs, ds, ms, p, mode) ==
    LET fail == [ok |-> FALSE, files |-> fs, modes |-> ms] IN
    IF Stat(fs, ds, ms, Dir(p)) # "ok" \/ Dir(p) \notin ds THEN fail
    ELSE IF ~CanSearch(ms, Dir(p)) \/ p \in ds THEN fail
    ELSE IF p \in DOMAIN fs
    THEN [fail EXCEPT !.ok = env.root \/ OwnerWrite(ms[p])]
    ELSE IF ~CanChange(ms, Dir(p)) THEN fail
    ELSE [ok |-> TRUE,
          files |-> [q \in DOMAIN fs \cup {p} |-> IF q = p THEN <<>> ELSE fs[q]],
          modes |-> [q \in DOMAIN ms \cup {p} |-> IF q = p THEN mode ELSE ms[q]]]

\* the bytes of a file after data is written at offset off; a gap between
\* the end of the file and the offset reads as zeros
WriteBytes(old, off, data) ==
    [i \in 1..off |-> IF i <= Len(old) THEN old[i] ELSE 0]
        \o data \o SubSeq(old, off + Len(data) + 1, Len(old))

\* file.Write of io.Copy into an open file: the files afterwards
WriteFile(fs, p, off, data) == [fs EXCEPT ![p] = WriteBytes(@, off, data)]

(***************************************************************************)
(* archive extraction: one iteration of the loop of downloadAndExtractRepo *)
(***************************************************************************)
TypeDir == "dir"
TypeReg == "reg"
TypeSymlink == "sym"
\* a position where tr.Next() returns an error other than io.EOF
TarError == "err"

\* the security check of the extraction loop
ExtractCheck(targetPath, extractPath) == HasPrefix(targetPath, extractPath)

\* the target path of an entry name, or EMPTY when the entry has a single
\* path segment and is skipped
TargetPath(name, extractPath) ==
    LET pathParts == Split(name, SLASH) IN
    IF Len(pathParts) > 1
    THEN FilepathJoin(extractPath, JoinWith(Tail(pathParts), SLASH))
    ELSE EMPTY

\* an extraction that writes the entry of a symbolic link as a file
TypeflagFollowsLinks(e) == IF e.typ = TypeSymlink THEN TypeReg ELSE e.typ

\* header.Typeflag, the subject of the switch
Typeflag(e) == e.typ

\* what the loop does with an entry: "fail" (tr.Next returned an error),
\* "skip" (one path segment, outside the destination, or a type the switch
\* has no case for), "dir" or "file"
EntryCase(e, extractPath) ==
    LET targetPath == TargetPath(e.name, extractPath) IN
    IF e.typ = TarError THEN "fail"
    ELSE IF targetPath = EMPTY THEN "skip"
    ELSE IF ~ExtractCheck(targetPath, extractPath) THEN "skip"
    ELSE IF Typeflag(e) = TypeDir THEN "dir"
    ELSE IF Typeflag(e) = TypeReg THEN "file"
    ELSE "skip"

\* the bytes of a file entry that io.Copy reads before the stream ends or
\* breaks
Arrived(e) == SubSeq(e.data, 1, e.arrive)

\* io.Copy returned no error: the stream held every byte of the entry
CopyOk(e) == e.arrive = Len(e.data)

\* what one entry does to the file system when no other goroutine runs:
\* [ok, files, dirs, modes, wrote], wrote being the path created or opened
\* (EMPTY if none)
ExtractEntry(e, extractPath, fs, ds, ms) ==
    LET targetPath == TargetPath(e.name, extractPath)
        kind == EntryCase(e, extractPath)
        same == [ok |-> TRUE, files |-> fs, dirs |-> ds, modes |-> ms, wrote |-> EMPTY]
    IN IF kind = "fail" THEN [same EXCEPT !.ok = FALSE]
       ELSE IF kind = "skip" THEN same
       ELSE IF kind = "dir"
       THEN LET made == MkdirAll(fs, ds, ms, targetPath, e.mode) IN
            [same EXCEPT !.ok = MkdirAllOk(made), !.dirs = made.dirs,
                         !.modes = made.modes,
                         !.wrote = IF MkdirAllOk(made) THEN targetPath ELSE EMPTY]
       ELSE LET made == MkdirAll(fs, ds, ms, Dir(targetPath), Mode0755)
                file == OpenFile(fs, made.dirs, made.modes, targetPath, e.mode)
            IN IF ~MkdirAllOk(made)
               THEN [same EXCEPT !.ok = FALSE, !.dirs = made.dirs, !.modes = made.modes]
               ELSE IF ~file.ok
               THEN [same EXCEPT !.ok = FALSE, !.dirs = made.dirs, !.modes = made.modes]
               ELSE [ok |-> CopyOk(e),
                     files |-> WriteFile(file.files, targetPath, 0, Arrived(e)),
                     dirs |-> made.dirs, modes |-> file.modes, wrote |-> targetPath]

\* the loop of downloadAndExtractRepo over entries, from the file system
\* (fs, ds, ms), when no other goroutine runs: ok is FALSE when it returns an
\* error
RECURSIVE ExtractFrom(_, _, _, _, _)
ExtractFrom(entries, extractPath, fs, ds, ms) ==
    IF Len(entries) = 0 THEN [ok |-> TRUE, files |-> fs, dirs |-> ds, modes |-> ms]
    ELSE LET x == ExtractEntry(Head(entries), extractPath, fs, ds, ms) IN
         IF x.ok THEN ExtractFrom(Tail(entries), extractPath, x.files, x.dirs, x.modes)
         ELSE [ok |-> FALSE, files |-> x.files, dirs |-> x.dirs, modes |-> x.modes]

(***************************************************************************)
(* bounds and inputs                                                       *)
(***************************************************************************)
\* the clock stops here
MaxTime == 2
\* requests accepted in one behaviour
MaxReqs == 3

\* archive entries as the test server writes them: every header has Mode
\* 0644; arrive is the number of bytes of data the stream delivers
File(name, data) ==
    [name |-> name, typ |-> TypeReg, data |-> data, mode |-> Mode0644,
     arrive |-> Len(data)]
Folder(name) ==
    [name |-> name, typ |-> TypeDir, data |-> <<>>, mode |-> Mode0644, arrive |-> 0]
\* an entry of another type, or the place of a broken header
Other(name, typ) ==
    [name |-> name, typ |-> typ, data |-> <<>>, mode |-> Mode0644, arrive |-> 0]

\* The archives of the remote, each wrapped in the root folder "t":
\*   v1   t/  t/i  t/f          a site with an index file
\*   v2   t/f                   a later version: no index file, shorter f
\*   cut  t/f  <tar error>      a stream that breaks after its first entry
\*   vj   t/j                   a site whose only index file is the second name
\*   vij  t/j  t/i              a site with both index files
\*   gz   not a gzip stream
\*   esc  t/../r:m2/f  t/../../e  t/f/  t/s(symlink)  t
\*        entries that leave the destination, a directory, a symbolic link
\*        and the bare root folder
\*   dup  t/f  t/f              the same file twice, the second one shorter
\*   clash  t/f/  t/f           a directory and then a file of the same name
\*   part  t/  t/i  t/f         v1, the stream broken after the first byte of
\*                              t/f
\*   shut  t/d/  t/d/x          a directory with mode 0644 and a file in it
\*   deep  t/a/b/  t/g/(0755)  t/g/x
\*                              a directory with mode 0644 below one that
\*                              is not in the archive, a directory with
\*                              mode 0755 and a file in it
Archives ==
    [v1  |-> [gzip |-> TRUE, entries |->
                << Folder(<<"t", "/">>),
                   File(<<"t", "/", "i">>, <<1>>),
                   File(<<"t", "/", "f">>, <<1, 1>>) >>],
     v2  |-> [gzip |-> TRUE, entries |->
                << File(<<"t", "/", "f">>, <<2>>) >>],
     cut |-> [gzip |-> TRUE, entries |->
                << File(<<"t", "/", "f">>, <<3>>),
                   Other(EMPTY, TarError) >>],
     vj  |-> [gzip |-> TRUE, entries |->
                << File(<<"t", "/", "j">>, <<5>>) >>],
     vij |-> [gzip |-> TRUE, entries |->
                << File(<<"t", "/", "j">>, <<6>>),
                   File(<<"t", "/", "i">>, <<6>>) >>],
     gz  |-> [gzip |-> FALSE, entries |-> <<>>],
     esc |-> [gzip |-> TRUE, entries |->
                << File(<<"t", "/", ".", ".", "/", "r", ":", "m", "2", "/", "f">>, <<4>>),
                   File(<<"t", "/", ".", ".", "/", ".", ".", "/", "e">>, <<4>>),
                   Folder(<<"t", "/", "f", "/">>),
                   Other(<<"t", "/", "s">>, TypeSymlink),
                   Folder(<<"t">>) >>],
     dup |-> [gzip |-> TRUE, entries |->
                << File(<<"t", "/", "f">>, <<7, 7>>),
                   File(<<"t", "/", "f">>, <<8>>) >>],
     clash |-> [gzip |-> TRUE, entries |->
                << Folder(<<"t", "/", "f", "/">>),
                   File(<<"t", "/", "f">>, <<9>>) >>],
     part |-> [gzip |-> TRUE, entries |->
                << Folder(<<"t", "/">>),
                   File(<<"t", "/", "i">>, <<1>>),
                   [File(<<"t", "/", "f">>, <<1, 1>>) EXCEPT !.arrive = 1] >>],
     shut |-> [gzip |-> TRUE, entries |->
                << Folder(<<"t", "/", "d", "/">>),
                   File(<<"t", "/", "d", "/", "x">>, <<1>>) >>],
     deep |-> [gzip |-> TRUE, entries |->
                << Folder(<<"t", "/", "a", "/", "b", "/">>),
                   [Folder(<<"t", "/", "g", "/">>) EXCEPT !.mode = Mode0755],
                   File(<<"t", "/", "g", "/", "x">>, <<1>>) >>]]

Req(h, u) == [host |-> h, path |-> u]

\* requests of the concurrent specification: the root and a file of host a,
\* a file of host b (same repository, branch m2)
FewRequests ==
    { Req(<<"a">>, <<"/">>),
      Req(<<"a">>, <<"/", "f">>),
      Req(<<"b">>, <<"/", "f">>) }

\* requests of the sequential specification
AllRequests ==
    FewRequests \cup
    { Req(<<"b">>, <<"/">>),
      Req(<<"a", ":", "8">>, <<"/", "g">>),
      Req(<<"a">>, <<"/", "f", "/", "x">>),
      Req(<<"a">>, <<"/", "f", "/">>),
      Req(<<"a">>, <<"/", ".", ".", "/", "r", ":", "m", "2", "/", "f">>),
      Req(<<"a">>, <<"/", ".", ".", "/", ".", ".", "/", "e">>),
      Req(<<"z">>, <<"/", "o", "/", "r", "/", "f">>),
      Req(<<"z">>, <<"/", "o">>) }

\* hosts, paths and names of the configuration specification
HostBlog ==
    <<"b", "l", "o", "g", ".", "e", "x", "a", "m", "p", "l", "e", ".", "c",
    "o", "m">>
HostBlogPort ==
    <<"b", "l", "o", "g", ".", "e", "x", "a", "m", "p", "l", "e", ".", "c",
    "o", "m", ":", "8", "0", "8", "0">>
HostJohn ==
    <<"j", "o", "h", "n", ".", "p", "a", "g", "e", "s", ".", "e", "x", "a",
    "m", "p", "l", "e", ".", "c", "o", "m">>
HostNoUser ==
    <<".", "p", "a", "g", "e", "s", ".", "e", "x", "a", "m", "p", "l", "e",
    ".", "c", "o", "m">>
HostApex ==
    <<"p", "a", "g", "e", "s", ".", "e", "x", "a", "m", "p", "l", "e", ".",
    "c", "o", "m">>
HostLocal == <<"l", "o", "c", "a", "l", "h", "o", "s", "t">>
HostExample == <<"e", "x", "a", "m", "p", "l", "e", ".", "c", "o", "m">>
HostInput == <<"i", "n", "p", "u", "t">>
Websites == <<"w", "e", "b", "s", "i", "t", "e", "s">>
\* custom patterns: one with both placeholders, one with none of them
PatCustom == PatSubdomain \o <<"@">> \o PatDomain
PatProject == <<"{", "p", "}", ".", "c">>
\* repo formats: {subdomain}-s, and {domain} inside a pair of braces
FormatSuffix == PatSubdomain \o <<"-", "s">>
FormatBraces == <<"{">> \o PatDomain \o <<"}">>
PathAsset ==
    <<"/", "a", "c", "m", "e", "/", "s", "i", "t", "e", "/", "c", "s", "s",
    "/", "a", ".", "c", "s", "s">>
PathOwnerOnly == <<"/", "a", "c", "m", "e", "/">>
PathRepo == <<"/", "o", "/", "r">>

\* domain_mapping lines: none; or example.com, and blog.example.com twice
MappingConfigs ==
    { <<>>,
      << [Domain |-> HostExample, Owner |-> <<"o">>, Repository |-> <<"e">>,
          Branch |-> EMPTY],
         [Domain |-> HostBlog, Owner |-> <<"o">>, Repository |-> <<"r">>,
          Branch |-> EMPTY],
         [Domain |-> HostBlog, Owner |-> <<"p">>, Repository |-> <<"s">>,
          Branch |-> <<"m", "2">>] >> }

AutoRule(enabled, pattern, owner, format, branch) ==
    [Present |-> TRUE, Enabled |-> enabled, Pattern |-> pattern, Owner |-> owner,
     RepoFormat |-> format, Branch |-> branch]

\* auto_mapping blocks: none, a disabled one, {subdomain}.{domain} with and
\* without owner, {user}.pages.{domain} without and with owner, a custom
\* pattern with owner and one without, {domain} with a format in braces
AutoRules ==
    { NoAutoMapping,
      AutoRule(FALSE, PatSubDotDomain, Websites, PatSubdomain, <<"m", "2">>),
      AutoRule(TRUE, PatSubDotDomain, Websites, PatSubdomain, <<"m", "2">>),
      AutoRule(TRUE, PatSubDotDomain, EMPTY, PatSubdomain, EMPTY),
      AutoRule(TRUE, PatUserPages, EMPTY, PatDomain, EMPTY),
      AutoRule(TRUE, PatUserPages, Websites, EMPTY, <<"m", "2">>),
      AutoRule(TRUE, PatCustom, Websites, FormatSuffix, <<"m", "2">>),
      AutoRule(TRUE, PatProject, EMPTY, FormatSuffix, <<"m", "2">>),
      AutoRule(TRUE, PatDomain, Websites, FormatBraces, EMPTY) }

\* gitea_url values
Urls == {EMPTY, GitteaURL, <<" ">>}

ConfigRequests ==
    { Req(h, u) : h \in {HostBlog, HostBlogPort, HostJohn, HostNoUser, HostApex,
                         HostLocal, HostExample, HostInput},
                  u \in {<<"/">>, PathAsset, PathOwnerOnly, PathRepo} }
(***************************************************************************)
(* state                                                                   *)
(***************************************************************************)
NoEntry == [lastUpdate |-> -1, path |-> EMPTY]
NoFiles == [q \in {} |-> <<>>]

\* a goroutine that serves no request.  Besides the position and the
\* arguments of serveFile the locals are: exists, seen and entryPath, the
\* results of the last read of the map (entry, exists := repos[cacheKey])
\* with the lastUpdate and the path of the entry; ix, the position of
\* findIndexFile in IndexFiles; uerr, the error of the unlink of os.Remove;
\* stack, the descriptors os.RemoveAll has open, that of the parent of the
\* extract path first (or the one http.ServeFile has open on a directory),
\* each with the names read from it that are still to be removed, with
\* isdir, whether it was a directory that was opened, and with live,
\* whether the directory the descriptor is bound to still exists; cur, the
\* name RemoveAll is about to open; goal, at and then, the argument of the
\* os.MkdirAll under way, the path its next system call is about and where
\* its caller goes on; fd and off, the state of the file the extraction has
\* open and the offset of its descriptor; sent, what http.ServeFile answered
Idle ==
    [pc |-> "idle", host |-> EMPTY, path |-> EMPTY,
     owner |-> EMPTY, repo |-> EMPTY, filePath |-> EMPTY, branch |-> EMPTY,
     need |-> FALSE, key |-> EMPTY, arch |-> "", pos |-> 0, wrote |-> EMPTY,
     outcome |-> "", err |-> "", fullPath |-> EMPTY, called |-> FALSE,
     snapEntry |-> NoEntry, snapTree |-> NoFiles,
     exists |-> FALSE, seen |-> -1, ix |-> 0, entryPath |-> EMPTY,
     uerr |-> "", stack |-> <<>>, cur |-> EMPTY,
     goal |-> EMPTY, at |-> EMPTY, then |-> "",
     fd |-> "", off |-> 0, sent |-> ""]

\* the regular files beneath a directory, with their bytes
Tree(fs, root) == [q \in {x \in DOMAIN fs : IsUnder(x, root)} |-> fs[q]]

\* the modes of a cache directory that os.MkdirAll(CacheDir, 0755) made
NewModes == [d \in Ancestors(CacheDir) |-> Mode0755]

\* Provision: an empty map over an existing cache directory
Provisioned ==
    /\ repos = [k \in {} |-> NoEntry]
    /\ files = NoFiles
    /\ dirs = Ancestors(CacheDir)
    /\ modes = NewModes
    /\ now = 0
    /\ mu = [w |-> 0, r |-> {}]
    /\ started = 0

\* the goroutines of the server; a request is taken by the first free one
Goroutines == {1, 2}

\* HTTP status codes
StatusOK == 200
StatusUnauthorized == 401
StatusNotFound == 404
StatusServiceUnavailable == 503

\* the configuration of the serving specifications, a Gitea whose
\* repository is public, has m2 as its default branch, and whose metadata
\* and archive endpoints answer 200, and a server process that is not the
\* superuser
ServeEnv ==
    [url |-> GitteaURL, token |-> EMPTY, mappings |-> DomainMappings,
     auto |-> AutoMapping, repoBranch |-> <<"m", "2">>, private |-> FALSE,
     metaStatus |-> StatusOK, archStatus |-> StatusOK, root |-> FALSE]

Init ==
    /\ Provisioned
    /\ procs = [p \in Goroutines |-> Idle]
    /\ env = [clients |-> FewRequests, remote |-> {"v1", "cut"}, audit |-> FALSE]
                @@ ServeEnv
    /\ validated = Validate(GitteaURL)

InitSeq ==
    /\ Provisioned
    /\ procs = [p \in {1} |-> Idle]
    /\ env = [clients |-> AllRequests, remote |-> {"v1", "v2", "cut", "gz", "esc"},
              audit |-> TRUE]
                @@ ServeEnv
    /\ validated = Validate(GitteaURL)

(***************************************************************************)
(* the cache                                                               *)
(***************************************************************************)
\* a comparison that is off by one at the boundary
ExpiredAtTTL(age, ttl) == age >= ttl

\* an entry that never becomes stale
ExpiredNever(age, ttl) == FALSE

\* the comparison of shouldUpdateCache for an existing entry
Expired(age, ttl) == age > ttl

\* a serveFile that refreshes on every request
AlwaysRefresh(need) == "getinfo"

\* where serveFile goes after shouldUpdateCache
AfterCheck(need) == IF need THEN "getinfo" ELSE "lookup"

\* a fallback that prefers the module's default to the repository's
EffectiveBranchModuleFirst(branch, repoDefault) ==
    IF branch = EMPTY THEN DefaultBranch ELSE branch

\* the branch updateRepoCache downloads and publishes under
EffectiveBranch(branch, repoDefault) ==
    IF branch = EMPTY
    THEN IF repoDefault # EMPTY THEN repoDefault ELSE DefaultBranch
    ELSE branch

\* a loop over the index files from the last to the first
IndexAtReversed(names, ix) == names[Len(names) + 1 - ix]

\* the index file findIndexFile looks at in its ix-th iteration
IndexAt(names, ix) == names[ix]

\* the security check of serveFile
ServeCheck(fullPath, entryPath) == HasPrefix(fullPath, entryPath)

\* serveFile after the read of the map, up to the security check: the full
\* path, and the error it returns if any
Joined(exists, entryPath, filePath) ==
    IF ~exists
    THEN [err |-> "nocache", fullPath |-> EMPTY]
    ELSE LET fullPath == FilepathJoin(entryPath, filePath) IN
         IF ~ServeCheck(fullPath, entryPath)
         THEN [err |-> "invalid", fullPath |-> fullPath]
         ELSE [err |-> "", fullPath |-> fullPath]

\* the same for the entry the map holds under the key
Located(map, cacheKey, filePath) ==
    IF cacheKey \notin DOMAIN map
    THEN Joined(FALSE, EMPTY, filePath)
    ELSE Joined(TRUE, map[cacheKey].path, filePath)

\* os.IsNotExist of the error of os.Stat
IsNotExist(st) == st = "notexist"

\* the part of serveFile after the refresh when no other goroutine runs:
\* "served" with the path handed to http.ServeFile, or the error it returns
Locate(map, fs, ds, ms, cacheKey, filePath) ==
    LET l == Located(map, cacheKey, filePath) IN
    IF l.err # ""
    THEN [outcome |-> "next", err |-> l.err, fullPath |-> l.fullPath]
    ELSE IF IsNotExist(Stat(fs, ds, ms, l.fullPath))
    THEN [outcome |-> "next", err |-> "notfound", fullPath |-> l.fullPath]
    ELSE [outcome |-> "served", err |-> "", fullPath |-> l.fullPath]

\* isSlashRune of net/http: a slash or a backslash
IsSlashRune(c) == c = SLASH \/ c = "\\"

\* containsDotDot of net/http: one of the fields of the URL path between
\* slashes and backslashes is ".."
ContainsDotDot(urlPath) ==
    \E i \in 1..Len(urlPath), j \in 1..Len(urlPath) :
        /\ j = i + 1
        /\ urlPath[i] = "." /\ urlPath[j] = "."
        /\ (i = 1 \/ IsSlashRune(urlPath[i - 1]))
        /\ (j = Len(urlPath) \/ IsSlashRune(urlPath[j + 1]))

\* the suffix of net/http's serveFile for which it redirects
IndexPage == <<"/", "i", "n", "d", "e", "x", ".", "h", "t", "m", "l">>

\* strings.HasSuffix
HasSuffix(s, suffix) ==
    /\ Len(s) >= Len(suffix)
    /\ SubSeq(s, Len(s) - Len(suffix) + 1, Len(s)) = suffix

\* http.ServeFile(w, r, name) before it opens name: "badrequest" (400) for
\* a URL path with a ".." field, "redirect-index" (301 to "./") for a URL
\* path that ends in /index.html, "" when it goes on to open name
Refused(urlPath) ==
    IF ContainsDotDot(urlPath) THEN "badrequest"
    ELSE IF HasSuffix(urlPath, IndexPage) THEN "redirect-index"
    ELSE ""

\* http.ServeFile for a directory: the URL path does not end in a slash and
\* the answer is a redirect (301 to the last element and a slash)
NeedsSlash(urlPath) == urlPath = EMPTY \/ urlPath[Len(urlPath)] # SLASH

\* "token ", the scheme of the Authorization header
TokenPrefix == <<"t", "o", "k", "e", "n", " ">>

\* a client that sends the header whether or not a token is configured
AuthHeaderAlways(token) == TokenPrefix \o token

\* the Authorization header getRepoInfo and downloadAndExtractRepo send;
\* EMPTY is no header
AuthHeader(token) == IF token # EMPTY THEN TokenPrefix \o token ELSE EMPTY

\* the Gitea server: whether a request with this header can be answered 200
RemoteAccepts(private, authHeader) ==
    ~private \/ (authHeader # EMPTY /\ HasPrefix(authHeader, TokenPrefix))

\* the status of the server's response: 401 when the repository is private
\* and the header is missing or malformed, the endpoint's status otherwise
ResponseStatus(private, authHeader, status) ==
    IF RemoteAccepts(private, authHeader) THEN status ELSE StatusUnauthorized

\* a client that takes 404 for an empty answer
IsOKOrNotFound(status) == status \in {StatusOK, StatusNotFound}

\* resp.StatusCode == http.StatusOK
IsOK(status) == status = StatusOK

\* goroutine p holds gp.cache.mu, for reading or for writing, or has
\* claimed it for writing
HoldsMu(p) == mu.w = p \/ p \in mu.r

(***************************************************************************)
(* actions: the steps of one ServeHTTP call in goroutine p.  A step holds  *)
(* at most one access to the lock, the map, the clock or the file system   *)
(* that another goroutine can see or disturb                               *)
(***************************************************************************)
Set(p, rec) == procs' = [procs EXCEPT ![p] = rec]

\* the locals of a request that ends by calling next.ServeHTTP
Failed(me, why) ==
    [me EXCEPT !.pc = "done", !.outcome = "next", !.err = why,
               !.fd = "", !.off = 0, !.stack = <<>>, !.cur = EMPTY, !.uerr = "",
               !.goal = EMPTY, !.at = EMPTY, !.then = ""]

\* the request ends by calling next.ServeHTTP
ToNext(p, why) == Set(p, Failed(procs[p], why))

\* the descriptors of a goroutine after the paths gone have been removed by
\* another one: a file it has open has no name any more, and nothing can
\* be found through a directory it has open
Detached(me, gone) ==
    [me EXCEPT !.fd = IF me.fd = "open" /\ me.wrote \in gone THEN "orphan" ELSE me.fd,
               !.stack = [i \in DOMAIN me.stack |->
                            IF me.stack[i].dir \in gone
                            THEN [me.stack[i] EXCEPT !.live = FALSE]
                            ELSE me.stack[i]]]

\* goroutine p moves on while the paths gone are removed
SetUnlink(p, rec, gone) ==
    procs' = [q \in DOMAIN procs |->
                IF q = p THEN rec ELSE Detached(procs[q], gone)]

\* os.MkdirAll(goal, mode) is called; then says where its caller goes on
StartMkdirAll(me, goal, then) ==
    [me EXCEPT !.pc = "mkstat", !.goal = goal, !.at = goal, !.then = then]

\* the mode of the os.MkdirAll under way: header.Mode for the directory of
\* an entry, 0755 for the extract path and for the directory above a file
MkdirPerm(me) ==
    IF me.then = "next" THEN Archives[me.arch].entries[me.pos].mode ELSE Mode0755

\* os.MkdirAll has found or made the directory at: it makes the next one
\* below it on the way to the goal or, at the goal, returns nil and
\* downloadAndExtractRepo goes on: to gzip.NewReader after the extract
\* path, to the next entry after the directory of an entry, to os.OpenFile
\* after the directory above a file
AfterMkdir(me) ==
    LET done == [me EXCEPT !.goal = EMPTY, !.at = EMPTY, !.then = ""] IN
    IF me.at # me.goal
    THEN [me EXCEPT !.pc = "mkmk",
                    !.at = CHOOSE a \in Ancestors(me.goal) : a # me.at /\ Dir(a) = me.at]
    ELSE IF me.then = "gzip" THEN [done EXCEPT !.pc = "gzip"]
    ELSE IF me.then = "next"
    THEN [done EXCEPT !.pc = "extract", !.pos = me.pos + 1, !.wrote = me.goal]
    ELSE [done EXCEPT !.pc = "open"]

\* ServeHTTP up to the first read of the cache
Begin(p) ==
    /\ validated = NoError
    /\ procs[p].pc = "idle"
    /\ \A q \in DOMAIN procs : q < p => procs[q].pc # "idle"
    /\ started < MaxReqs
    /\ started' = started + 1
    /\ \E r \in env.clients :
         LET m  == Route(r.host, r.path, env.mappings, env.auto)
             me == [procs[p] EXCEPT !.host = r.host, !.path = r.path]
         IN IF ~m.handled
            THEN Set(p, [me EXCEPT !.pc = "done", !.outcome = "next", !.err = "route"])
            ELSE LET io == [me EXCEPT !.owner = m.owner, !.repo = m.repo,
                                      !.filePath = m.filePath, !.branch = m.branch]
                 IN IF m.filePath = EMPTY
                    THEN Set(p, [io EXCEPT !.pc = "index"])
                    ELSE Set(p, [io EXCEPT !.pc = "check", !.branch = ServeBranch(m.branch)])
    /\ UNCHANGED <<repos, files, dirs, modes, now, env, validated, mu>>

\* the pc after gp.cache.mu.RLock() returned: the read of the map that
\* follows it in findIndexFile, shouldUpdateCache and serveFile
AfterRLock(pc) ==
    IF pc = "index" THEN "iread" ELSE IF pc = "check" THEN "cread" ELSE "lread"

\* gp.cache.mu.RLock() in findIndexFile (405), shouldUpdateCache (219) and
\* serveFile (191): it returns when no goroutine has called Lock and not
\* yet Unlock
RLock(p) ==
    /\ procs[p].pc \in {"index", "check", "lookup"}
    /\ mu.w = 0
    /\ mu' = [mu EXCEPT !.r = @ \cup {p}]
    /\ Set(p, [procs[p] EXCEPT !.pc = AfterRLock(@)])
    /\ UNCHANGED <<repos, files, dirs, modes, now, started, env, validated>>

\* what follows gp.cache.mu.RUnlock(): findIndexFile returns "" without an
\* entry and else goes through IndexFiles; shouldUpdateCache returns true
\* without an entry and else looks at the age of the one it read; serveFile
\* returns an error without an entry, and else joins the file path onto the
\* path of the entry and checks the prefix
AfterRUnlock(me) ==
    LET rec == [me EXCEPT !.exists = FALSE] IN
    IF me.pc = "iunlock"
    THEN IF me.exists THEN [rec EXCEPT !.pc = "istat", !.ix = 1]
         ELSE Failed(rec, "index")
    ELSE IF me.pc = "cunlock"
    THEN IF me.exists THEN [rec EXCEPT !.pc = "age"]
         ELSE [rec EXCEPT !.pc = AfterCheck(TRUE), !.need = TRUE]
    ELSE LET l == Joined(me.exists, me.entryPath, me.filePath) IN
         IF l.err = ""
         THEN [rec EXCEPT !.pc = "stat", !.fullPath = l.fullPath, !.entryPath = EMPTY]
         ELSE [rec EXCEPT !.pc = "done", !.outcome = "next", !.err = l.err,
                          !.fullPath = l.fullPath, !.entryPath = EMPTY]

\* an RUnlock that is left out: the read lock is kept
RUnlockKept(p) ==
    /\ procs[p].pc \in {"iunlock", "cunlock", "lunlock"}
    /\ Set(p, AfterRUnlock(procs[p]))
    /\ UNCHANGED <<repos, files, dirs, modes, now, mu, started, env, validated>>

\* gp.cache.mu.RUnlock() in findIndexFile (407), shouldUpdateCache (221) and
\* serveFile (193)
RUnlock(p) ==
    /\ procs[p].pc \in {"iunlock", "cunlock", "lunlock"}
    /\ mu' = [mu EXCEPT !.r = @ \ {p}]
    /\ Set(p, AfterRUnlock(procs[p]))
    /\ UNCHANGED <<repos, files, dirs, modes, now, started, env, validated>>

\* findIndexFile for a request without a file path: the read of the map
\* under the read lock
FindIndex(p) ==
    /\ procs[p].pc = "iread"
    /\ LET me == procs[p]
           cacheKey == CacheKey(RepoKey(me.owner, me.repo), DefaultBranch)
       IN IF cacheKey \notin DOMAIN repos
          THEN Set(p, [me EXCEPT !.pc = "iunlock", !.exists = FALSE])
          ELSE Set(p, [me EXCEPT !.pc = "iunlock", !.exists = TRUE,
                                 !.entryPath = repos[cacheKey].path])
    /\ UNCHANGED <<repos, files, dirs, modes, now, started, env, validated, mu>>

\* findIndexFile: os.Stat of one index file, without the lock; the first
\* name that exists is the file path, and ServeHTTP goes on to serveFile
StatIndex(p) ==
    /\ procs[p].pc = "istat"
    /\ LET me == procs[p]
           indexFile == IndexAt(IndexFiles, me.ix)
           fullPath == FilepathJoin(me.entryPath, indexFile)
       IN IF Stat(files, dirs, modes, fullPath) = "ok"
          THEN Set(p, [me EXCEPT !.pc = "check", !.filePath = indexFile,
                                 !.branch = ServeBranch(me.branch), !.ix = 0])
          ELSE IF me.ix < Len(IndexFiles)
          THEN Set(p, [me EXCEPT !.ix = me.ix + 1])
          ELSE ToNext(p, "index")
    /\ UNCHANGED <<repos, files, dirs, modes, now, started, env, validated, mu>>

\* shouldUpdateCache: the read of the map under the read lock
ShouldUpdate(p) ==
    /\ procs[p].pc = "cread"
    /\ LET me == procs[p]
           cacheKey == CacheKey(RepoKey(me.owner, me.repo), me.branch)
       IN IF cacheKey \notin DOMAIN repos
          THEN Set(p, [me EXCEPT !.pc = "cunlock", !.exists = FALSE])
          ELSE Set(p, [me EXCEPT !.pc = "cunlock", !.exists = TRUE,
                                 !.seen = repos[cacheKey].lastUpdate])
    /\ UNCHANGED <<repos, files, dirs, modes, now, started, env, validated, mu>>

\* shouldUpdateCache: time.Since of the entry that was read, after the lock
\* has been released
CompareAge(p) ==
    /\ procs[p].pc = "age"
    /\ LET me   == procs[p]
           need == Expired(now - me.seen, CacheTTL)
       IN Set(p, [me EXCEPT !.pc = AfterCheck(need), !.need = need])
    /\ UNCHANGED <<repos, files, dirs, modes, now, started, env, validated, mu>>

\* updateRepoCache: getRepoInfo answers 200 with the repository's default
\* branch, or fails (network error, non-200)
GetRepoInfo(p) ==
    /\ procs[p].pc = "getinfo"
    /\ LET me  == procs[p]
           key == CacheKey(RepoKey(me.owner, me.repo), me.branch)
           at  == IF env.audit
                  THEN [me EXCEPT !.called = TRUE,
                          !.snapEntry = IF key \in DOMAIN repos THEN repos[key] ELSE NoEntry,
                          !.snapTree = Tree(files, KeyPath(key))]
                  ELSE [me EXCEPT !.called = TRUE]
           answers == IF IsOK(ResponseStatus(env.private, AuthHeader(env.token),
                                             env.metaStatus))
                      THEN BOOLEAN ELSE {FALSE}
       IN \E ok \in answers :
            IF ok
            THEN Set(p, [at EXCEPT !.pc = "download",
                           !.key = CacheKey(RepoKey(me.owner, me.repo),
                                            EffectiveBranch(me.branch, env.repoBranch))])
            ELSE Set(p, [at EXCEPT !.pc = "done", !.outcome = "next", !.err = "update"])
    /\ UNCHANGED <<repos, files, dirs, modes, now, started, env, validated, mu>>

\* a downloadAndExtractRepo that empties the extract path before it sends
\* the archive request
DownloadResetsFirst(p) ==
    /\ procs[p].pc = "download"
    /\ LET path == KeyPath(procs[p].key)
           fs   == RemoveAllFiles(files, path)
           ds   == RemoveAllDirs(dirs, path)
           made == MkdirAll(fs, ds, Restrict(modes, fs, ds), path, Mode0755)
       IN files' = fs /\ dirs' = made.dirs /\ modes' = made.modes
    /\ \E a \in (IF IsOK(ResponseStatus(env.private, AuthHeader(env.token),
                                        env.archStatus))
                THEN env.remote ELSE {}) \cup {""} :
         IF a = ""
         THEN ToNext(p, "update")
         ELSE Set(p, [procs[p] EXCEPT !.pc = "reset", !.arch = a])
    /\ UNCHANGED <<repos, now, started, env, validated, mu>>

\* downloadAndExtractRepo: the archive request fails (network error,
\* non-200), or answers 200 with an archive
Download(p) ==
    /\ procs[p].pc = "download"
    /\ \E a \in (IF IsOK(ResponseStatus(env.private, AuthHeader(env.token),
                                        env.archStatus))
                THEN env.remote ELSE {}) \cup {""} :
         IF a = ""
         THEN ToNext(p, "update")
         ELSE Set(p, [procs[p] EXCEPT !.pc = "reset", !.arch = a])
    /\ UNCHANGED <<repos, files, dirs, modes, now, started, env, validated, mu>>

\* os.RemoveAll(extractPath) has returned nil; downloadAndExtractRepo goes on
\* to os.MkdirAll(extractPath, 0755)
AfterRemoveAll(me) ==
    StartMkdirAll([me EXCEPT !.stack = <<>>, !.cur = EMPTY, !.uerr = ""],
                  KeyPath(me.key), "gzip")

\* os.RemoveAll has dealt with one name of the directory on top of its
\* stack: it takes the next name, or closes the directory and removes it,
\* or, below the parent of the extract path, returns nil
AfterName(me) ==
    IF me.stack[Len(me.stack)].names # {}
    THEN [me EXCEPT !.pc = "unlinkat", !.cur = EMPTY]
    ELSE IF Len(me.stack) = 1 THEN AfterRemoveAll(me)
    ELSE [me EXCEPT !.pc = "rmdirat", !.cur = EMPTY]

\* os.RemoveAll(extractPath), first system call: os.Remove tries
\* unlink(extractPath); a regular file is removed and RemoveAll returns nil
Remove(p) ==
    /\ procs[p].pc = "reset"
    /\ LET me == procs[p]
           extractPath == KeyPath(me.key)
           st == Stat(files, dirs, modes, extractPath)
       IN IF st = "ok" /\ extractPath \in DOMAIN files
          THEN /\ files' = [x \in DOMAIN files \ {extractPath} |-> files[x]]
               /\ modes' = Restrict(modes, files', dirs)
               /\ SetUnlink(p, AfterRemoveAll(me), {extractPath})
          ELSE /\ Set(p, [me EXCEPT !.pc = "rmdir",
                                    !.uerr = IF st = "ok" THEN "EISDIR"
                                             ELSE IF st = "notexist" THEN "ENOENT"
                                             ELSE "ENOTDIR"])
               /\ UNCHANGED <<files, modes>>
    /\ UNCHANGED <<repos, dirs, now, started, env, validated, mu>>

\* os.RemoveAll, second system call: os.Remove tries rmdir(extractPath); an
\* empty directory is removed.  RemoveAll returns nil if Remove did or if
\* its error is ENOENT (of the two errors Remove returns that of rmdir,
\* unless it is ENOTDIR)
RemoveRmdir(p) ==
    /\ procs[p].pc = "rmdir"
    /\ LET me == procs[p]
           extractPath == KeyPath(me.key)
           st == Stat(files, dirs, modes, extractPath)
           e1 == IF st = "notexist" THEN "ENOENT"
                 ELSE IF st = "error" \/ extractPath \in DOMAIN files THEN "ENOTDIR"
                 ELSE IF Children(files, dirs, extractPath) # {} THEN "ENOTEMPTY"
                 ELSE ""
           e  == IF e1 = "ENOTDIR" THEN me.uerr ELSE e1
       IN IF e1 = ""
          THEN /\ dirs' = dirs \ {extractPath}
               /\ modes' = Restrict(modes, files, dirs')
               /\ SetUnlink(p, AfterRemoveAll(me), {extractPath})
          ELSE /\ IF e = "ENOENT" THEN Set(p, AfterRemoveAll(me))
                  ELSE Set(p, [me EXCEPT !.pc = "rmparent", !.uerr = ""])
               /\ UNCHANGED <<dirs, modes>>
    /\ UNCHANGED <<repos, files, now, started, env, validated, mu>>

\* os.RemoveAll: the parent of the extract path is opened, be it a
\* directory or a regular file; RemoveAll returns nil if it does not exist,
\* and the error if it cannot be opened
OpenParent(p) ==
    /\ procs[p].pc = "rmparent"
    /\ LET me == procs[p]
           extractPath == KeyPath(me.key)
           st == Stat(files, dirs, modes, Dir(extractPath))
       IN IF st = "notexist" THEN Set(p, AfterRemoveAll(me))
          ELSE IF st = "error" THEN ToNext(p, "update")
          ELSE Set(p, [me EXCEPT !.pc = "unlinkat",
                          !.stack = << [dir |-> Dir(extractPath), live |-> TRUE,
                                        isdir |-> Dir(extractPath) \in dirs,
                                        names |-> {extractPath}] >>])
    /\ UNCHANGED <<repos, files, dirs, modes, now, started, env, validated, mu>>

\* os.RemoveAll, removeAllFrom(parent, base): unlinkat(fd of the open
\* directory, name, 0) for the next of the names read from it, in the order
\* the directory gave them.  Through the descriptor of a regular file it
\* fails with ENOTDIR, which RemoveAll returns; a name that is gone is
\* passed over (so is every name once the open directory has been
\* removed), a file is unlinked, a directory is left to be opened
UnlinkAt(p) ==
    /\ procs[p].pc = "unlinkat"
    /\ \E q \in procs[p].stack[Len(procs[p].stack)].names :
         LET me   == procs[p]
             n    == Len(me.stack)
             top  == me.stack[n]
             rest == [me EXCEPT !.stack[n].names = top.names \ {q}]
         IN IF ~top.isdir
            THEN ToNext(p, "update") /\ UNCHANGED <<files, modes>>
            ELSE IF ~top.live \/ q \notin DOMAIN files \cup dirs
            THEN Set(p, AfterName(rest)) /\ UNCHANGED <<files, modes>>
            ELSE IF q \in DOMAIN files
            THEN /\ files' = [x \in DOMAIN files \ {q} |-> files[x]]
                 /\ modes' = Restrict(modes, files', dirs)
                 /\ SetUnlink(p, AfterName(rest), {q})
            ELSE /\ Set(p, [rest EXCEPT !.pc = "openat", !.cur = q])
                 /\ UNCHANGED <<files, modes>>
    /\ UNCHANGED <<repos, dirs, now, started, env, validated, mu>>

\* os.RemoveAll, removeAllFrom: openat(fd of the open directory, name) of a
\* name that was a directory.  The descriptor is bound to the directory
\* that has the name now; if none has it the name is done, and a regular
\* file there is an error, returned by RemoveAll when the name is the
\* extract path
OpenDirAt(p) ==
    /\ procs[p].pc = "openat"
    /\ LET me  == procs[p]
           top == me.stack[Len(me.stack)]
       IN IF ~top.live \/ me.cur \notin DOMAIN files \cup dirs
          THEN Set(p, AfterName(me))
          ELSE IF me.cur \in DOMAIN files
          THEN IF Len(me.stack) = 1 THEN ToNext(p, "update")
               ELSE Set(p, AfterName(me))
          ELSE Set(p, [me EXCEPT !.pc = "getdents", !.cur = EMPTY,
                          !.stack = Append(me.stack,
                                           [dir |-> me.cur, live |-> TRUE,
                                            isdir |-> TRUE, names |-> {}])])
    /\ UNCHANGED <<repos, files, dirs, modes, now, started, env, validated, mu>>

\* os.RemoveAll, removeAllFrom: file.Readdirnames of the directory just
\* opened, one getdents64 call per step.  The first call gives the names
\* the directory holds at that moment; each further call gives names that
\* were created since, some or none of them as the file system has it, and
\* the call that gives none ends the reading.  A call on a directory that
\* has been removed fails with ENOENT: nothing is left to do for it
ReadDirNames(p) ==
    /\ procs[p].pc \in {"getdents", "getdents2"}
    /\ LET me  == procs[p]
           n   == Len(me.stack)
           top == me.stack[n]
           held == Children(files, dirs, top.dir)
       IN IF ~top.live
          THEN Set(p, AfterName([me EXCEPT !.stack = SubSeq(me.stack, 1, n - 1)]))
          ELSE IF me.pc = "getdents"
          THEN Set(p, [me EXCEPT !.pc = "getdents2", !.stack[n].names = held])
          ELSE \E more \in SUBSET (held \ top.names) :
                 IF more # {}
                 THEN Set(p, [me EXCEPT !.stack[n].names = top.names \cup more])
                 ELSE IF top.names = {}
                 THEN Set(p, [me EXCEPT !.pc = "rmdirat"])
                 ELSE Set(p, [me EXCEPT !.pc = "unlinkat"])
    /\ UNCHANGED <<repos, files, dirs, modes, now, started, env, validated, mu>>

\* os.RemoveAll, removeAllFrom: the directory whose names are dealt with is
\* closed and unlinkat(fd of its parent, name, AT_REMOVEDIR) removes it if
\* it is empty.  If it is not, the error counts only for the extract path
\* itself: RemoveAll returns it and downloadAndExtractRepo fails
RmdirAt(p) ==
    /\ procs[p].pc = "rmdirat"
    /\ LET me   == procs[p]
           n    == Len(me.stack)
           d    == me.stack[n].dir
           rest == [me EXCEPT !.stack = SubSeq(me.stack, 1, n - 1)]
           up   == me.stack[n - 1]
       IN IF ~up.live \/ d \notin DOMAIN files \cup dirs
          THEN Set(p, AfterName(rest)) /\ UNCHANGED <<dirs, modes>>
          ELSE IF d \in dirs /\ Children(files, dirs, d) = {}
          THEN /\ dirs' = dirs \ {d}
               /\ modes' = Restrict(modes, files, dirs')
               /\ SetUnlink(p, AfterName(rest), {d})
          ELSE /\ IF n = 2 THEN ToNext(p, "update") ELSE Set(p, AfterName(rest))
               /\ UNCHANGED <<dirs, modes>>
    /\ UNCHANGED <<repos, files, now, started, env, validated, mu>>

\* an os.MkdirAll that takes every failure of os.Mkdir for a directory that
\* exists already
LstatIsDirAlways(fs, ds, ms, path) == TRUE

\* os.MkdirAll after a failed os.Mkdir: os.Lstat succeeds and finds a
\* directory
LstatIsDir(fs, ds, ms, path) == Stat(fs, ds, ms, path) = "ok" /\ path \in ds

\* os.MkdirAll, going down: os.Stat of the path and then of the directories
\* above it, until one exists.  A regular file there is the error ENOTDIR.
\* Of a path directly below the root the parent is not looked at: os.Mkdir
\* comes next
MkdirAllStat(p) ==
    /\ procs[p].pc = "mkstat"
    /\ LET me == procs[p] IN
       IF Stat(files, dirs, modes, me.at) = "ok"
       THEN IF me.at \in DOMAIN files THEN ToNext(p, "update")
            ELSE Set(p, AfterMkdir(me))
       ELSE IF Dir(me.at) = ROOT THEN Set(p, [me EXCEPT !.pc = "mkmk"])
       ELSE Set(p, [me EXCEPT !.at = Dir(me.at)])
    /\ UNCHANGED <<repos, files, dirs, modes, now, started, env, validated, mu>>

\* os.MkdirAll, coming up: os.Mkdir of the next directory with the mode of
\* the call and, in a further step if that failed, os.Lstat of it: the
\* failure is no error if the path is a directory by then
Mkdir(p) ==
    /\ procs[p].pc \in {"mkmk", "mklstat"}
    /\ LET me == procs[p]
           can == /\ me.at \notin DOMAIN files \cup dirs
                  /\ Stat(files, dirs, modes, Dir(me.at)) = "ok"
                  /\ Dir(me.at) \in dirs
                  /\ CanChange(modes, Dir(me.at))
       IN IF me.pc = "mkmk"
          THEN IF can
               THEN /\ dirs' = dirs \cup {me.at}
                    /\ modes' = [q \in DOMAIN modes \cup {me.at} |->
                                   IF q = me.at THEN MkdirPerm(me) ELSE modes[q]]
                    /\ Set(p, AfterMkdir(me))
               ELSE /\ Set(p, [me EXCEPT !.pc = "mklstat"])
                    /\ UNCHANGED <<dirs, modes>>
          ELSE /\ IF LstatIsDir(files, dirs, modes, me.at)
                  THEN Set(p, AfterMkdir(me))
                  ELSE ToNext(p, "update")
               /\ UNCHANGED <<dirs, modes>>
    /\ UNCHANGED <<repos, files, now, started, env, validated, mu>>

\* downloadAndExtractRepo: gzip.NewReader reads the header of the response
\* body
NewGzipReader(p) ==
    /\ procs[p].pc = "gzip"
    /\ IF Archives[procs[p].arch].gzip
       THEN Set(p, [procs[p] EXCEPT !.pc = "extract", !.pos = 1])
       ELSE ToNext(p, "update")
    /\ UNCHANGED <<repos, files, dirs, modes, now, started, env, validated, mu>>

\* downloadAndExtractRepo: tr.Next and the start of one iteration of the
\* loop: the entry is skipped, or os.MkdirAll is called for its directory or
\* for the directory above its file; at io.EOF downloadAndExtractRepo
\* returns nil and updateRepoCache goes on to publish
Extract(p) ==
    /\ procs[p].pc = "extract"
    /\ LET me == procs[p]
           eof == me.pos > Len(Archives[me.arch].entries)
           e  == Archives[me.arch].entries[me.pos]
           extractPath == KeyPath(me.key)
           targetPath == TargetPath(e.name, extractPath)
           kind == EntryCase(e, extractPath)
       IN IF eof THEN Set(p, [me EXCEPT !.pc = "lock"])
          ELSE IF kind = "fail" THEN ToNext(p, "update")
          ELSE IF kind = "skip" THEN Set(p, [me EXCEPT !.pos = me.pos + 1])
          ELSE IF kind = "dir" THEN Set(p, StartMkdirAll(me, targetPath, "next"))
          ELSE Set(p, StartMkdirAll(me, Dir(targetPath), "open"))
    /\ UNCHANGED <<repos, files, dirs, modes, now, started, env, validated, mu>>

\* downloadAndExtractRepo: os.OpenFile of the entry's file
Create(p) ==
    /\ procs[p].pc = "open"
    /\ LET me == procs[p]
           e  == Archives[me.arch].entries[me.pos]
           targetPath == TargetPath(e.name, KeyPath(me.key))
           file == OpenFile(files, dirs, modes, targetPath, e.mode)
       IN /\ files' = file.files
          /\ modes' = file.modes
          /\ IF file.ok
             THEN Set(p, [me EXCEPT !.pc = "copy", !.fd = "open", !.off = 0,
                                    !.wrote = targetPath])
             ELSE ToNext(p, "update")
    /\ UNCHANGED <<repos, dirs, now, started, env, validated, mu>>

\* downloadAndExtractRepo: io.Copy, one round: tr.Read delivers some of the
\* bytes still to come and file.Write puts them at the offset of the
\* descriptor, into the file it is open on (which has no name any more if
\* it was unlinked since); when tr.Read returns io.EOF the file is closed
\* and the loop goes on, when it returns an error the extraction fails
Copy(p) ==
    /\ procs[p].pc = "copy"
    /\ LET me == procs[p]
           e  == Archives[me.arch].entries[me.pos]
       IN IF me.off < e.arrive
          THEN \E k \in 1..(e.arrive - me.off) :
                 /\ files' = IF me.fd = "open"
                             THEN WriteFile(files, me.wrote, me.off,
                                            SubSeq(e.data, me.off + 1, me.off + k))
                             ELSE files
                 /\ Set(p, [me EXCEPT !.off = me.off + k])
          ELSE /\ files' = files
               /\ IF CopyOk(e)
                  THEN Set(p, [me EXCEPT !.pc = "extract", !.pos = me.pos + 1,
                                         !.fd = "", !.off = 0])
                  ELSE ToNext(p, "update")
    /\ UNCHANGED <<repos, dirs, modes, now, started, env, validated, mu>>

\* an entry stamped with the zero time
NewEntryUnstamped(t, cacheKey) == [lastUpdate |-> 0, path |-> KeyPath(cacheKey)]

\* the entry updateRepoCache publishes
NewEntry(t, cacheKey) == [lastUpdate |-> t, path |-> KeyPath(cacheKey)]

\* updateRepoCache: gp.cache.mu.Lock() (259).  The call claims the lock as
\* soon as no other goroutine has claimed it, which keeps later RLock calls
\* waiting, and returns when the goroutines that hold it for reading have
\* released it: at once if there is none, else in a further step
Lock(p) ==
    /\ \/ /\ procs[p].pc = "lock"
          /\ mu.w = 0
          /\ mu' = [mu EXCEPT !.w = p]
          /\ Set(p, [procs[p] EXCEPT !.pc = IF mu.r = {} THEN "publish"
                                            ELSE "lockwait"])
       \/ /\ procs[p].pc = "lockwait"
          /\ mu.r = {}
          /\ mu' = mu
          /\ Set(p, [procs[p] EXCEPT !.pc = "publish"])
    /\ UNCHANGED <<repos, files, dirs, modes, now, started, env, validated>>

\* updateRepoCache: the entry is published, with time.Now() (260-263)
Publish(p) ==
    /\ procs[p].pc = "publish"
    /\ repos' = [k \in DOMAIN repos \cup {procs[p].key} |->
                   IF k = procs[p].key THEN NewEntry(now, k) ELSE repos[k]]
    /\ Set(p, [procs[p] EXCEPT !.pc = "unlock"])
    /\ UNCHANGED <<files, dirs, modes, now, started, env, validated, mu>>

\* updateRepoCache: gp.cache.mu.Unlock() (264); updateRepoCache returns nil
\* and serveFile goes on to its own read of the map
Unlock(p) ==
    /\ procs[p].pc = "unlock"
    /\ mu' = [mu EXCEPT !.w = 0]
    /\ Set(p, [procs[p] EXCEPT !.pc = "lookup"])
    /\ UNCHANGED <<repos, files, dirs, modes, now, started, env, validated>>

\* serveFile after the refresh: the read of the map under the read lock
Lookup(p) ==
    /\ procs[p].pc = "lread"
    /\ LET me == procs[p]
           cacheKey == CacheKey(RepoKey(me.owner, me.repo), me.branch)
       IN IF cacheKey \notin DOMAIN repos
          THEN Set(p, [me EXCEPT !.pc = "lunlock", !.exists = FALSE])
          ELSE Set(p, [me EXCEPT !.pc = "lunlock", !.exists = TRUE,
                                 !.entryPath = repos[cacheKey].path])
    /\ UNCHANGED <<repos, files, dirs, modes, now, started, env, validated, mu>>

\* serveFile: os.Stat of the full path, without the lock
StatFile(p) ==
    /\ procs[p].pc = "stat"
    /\ IF IsNotExist(Stat(files, dirs, modes, procs[p].fullPath))
       THEN ToNext(p, "notfound")
       ELSE Set(p, [procs[p] EXCEPT !.pc = "serve"])
    /\ UNCHANGED <<repos, files, dirs, modes, now, started, env, validated, mu>>

\* http.ServeFile has answered: serveFile returns nil whatever the answer
Answered(me, what) ==
    [me EXCEPT !.pc = "done", !.outcome = "served", !.sent = what, !.stack = <<>>]

\* the descriptor of a directory http.ServeFile has opened
Opened(d) == << [dir |-> d, live |-> TRUE, isdir |-> TRUE, names |-> {}] >>

\* serveFile: http.ServeFile is called (212).  It refuses the URL paths of
\* Refused without a look at the disk and else opens the full path: "error"
\* is its answer when that fails.  (Every mode in the cache lets its owner
\* read.)
ServeFile(p) ==
    /\ procs[p].pc = "serve"
    /\ LET me == procs[p] IN
       IF Refused(me.path) # "" THEN Set(p, Answered(me, Refused(me.path)))
       ELSE IF Stat(files, dirs, modes, me.fullPath) # "ok"
       THEN Set(p, Answered(me, "error"))
       ELSE Set(p, [me EXCEPT !.pc = "sfstat",
                              !.stack = IF me.fullPath \in dirs
                                        THEN Opened(me.fullPath) ELSE <<>>])
    /\ UNCHANGED <<repos, files, dirs, modes, now, started, env, validated, mu>>

\* http.ServeFile: f.Stat() of the open file.  A directory asked for
\* without a slash at the end is answered with a redirect; for a directory
\* its index.html is tried next, and the bytes of a file are read
ServeStat(p) ==
    /\ procs[p].pc = "sfstat"
    /\ LET me == procs[p] IN
       IF me.stack = <<>> THEN Set(p, [me EXCEPT !.pc = "sfread"])
       ELSE IF NeedsSlash(me.path) THEN Set(p, Answered(me, "redirect-dir"))
       ELSE Set(p, [me EXCEPT !.pc = "sfindex"])
    /\ UNCHANGED <<repos, files, dirs, modes, now, started, env, validated, mu>>

\* http.ServeFile, one system call per step.  For a directory: the open of
\* its index.html, the f.Stat() of that file if it could be opened, and
\* else the listing, which reads the directory with one getdents64 call
\* per step until a call gives no name: the first call gives the names the
\* directory holds at that moment, each further call names that were
\* created since, some or none of them as the file system has it; a
\* directory that has been removed since it was opened gives ENOENT at any
\* of the calls and the answer is "error" (500).  For a file: the read of its
\* bytes, also after it has been unlinked.  The answers are "file" (the
\* bytes of the file, or of the index.html of the directory) and "dir" (the
\* listing)
ServeContent(p) ==
    /\ procs[p].pc \in {"sfindex", "sfistat", "sflist", "sflist2", "sfread"}
    /\ LET me    == procs[p]
           index == me.fullPath \o IndexPage
       IN IF me.pc = "sfindex"
          THEN IF Stat(files, dirs, modes, index) # "ok"
               THEN Set(p, [me EXCEPT !.pc = "sflist"])
               ELSE Set(p, [me EXCEPT !.pc = "sfistat",
                                      !.stack = IF index \in dirs THEN Opened(index)
                                                ELSE <<>>])
          ELSE IF me.pc = "sfistat"
          THEN IF me.stack = <<>> THEN Set(p, Answered(me, "file"))
               ELSE Set(p, [me EXCEPT !.pc = "sflist"])
          ELSE IF me.pc \in {"sflist", "sflist2"}
          THEN LET top  == me.stack[1]
                   held == Children(files, dirs, top.dir)
               IN IF ~top.live THEN Set(p, Answered(me, "error"))
                  ELSE IF me.pc = "sflist"
                  THEN Set(p, [me EXCEPT !.pc = "sflist2", !.stack[1].names = held])
                  ELSE \E more \in SUBSET (held \ top.names) :
                         IF more # {}
                         THEN Set(p, [me EXCEPT !.stack[1].names = top.names \cup more])
                         ELSE Set(p, Answered(me, "dir"))
          ELSE Set(p, Answered(me, "file"))
    /\ UNCHANGED <<repos, files, dirs, modes, now, started, env, validated, mu>>

\* ServeHTTP returns; the goroutine is free for the next request
Return(p) ==
    /\ procs[p].pc = "done"
    /\ Set(p, Idle)
    /\ UNCHANGED <<repos, files, dirs, modes, now, started, env, validated, mu>>

\* time passes
Tick ==
    /\ now < MaxTime
    /\ now' = now + 1
    /\ UNCHANGED <<repos, files, dirs, modes, procs, started, env, validated, mu>>

Next ==
    \/ \E p \in DOMAIN procs : Begin(p)
    \/ \E p \in DOMAIN procs : RLock(p)
    \/ \E p \in DOMAIN procs : RUnlock(p)
    \/ \E p \in DOMAIN procs : FindIndex(p)
    \/ \E p \in DOMAIN procs : StatIndex(p)
    \/ \E p \in DOMAIN procs : ShouldUpdate(p)
    \/ \E p \in DOMAIN procs : CompareAge(p)
    \/ \E p \in DOMAIN procs : GetRepoInfo(p)
    \/ \E p \in DOMAIN procs : Download(p)
    \/ \E p \in DOMAIN procs : Remove(p)
    \/ \E p \in DOMAIN procs : RemoveRmdir(p)
    \/ \E p \in DOMAIN procs : OpenParent(p)
    \/ \E p \in DOMAIN procs : UnlinkAt(p)
    \/ \E p \in DOMAIN procs : OpenDirAt(p)
    \/ \E p \in DOMAIN procs : ReadDirNames(p)
    \/ \E p \in DOMAIN procs : RmdirAt(p)
    \/ \E p \in DOMAIN procs : MkdirAllStat(p)
    \/ \E p \in DOMAIN procs : Mkdir(p)
    \/ \E p \in DOMAIN procs : NewGzipReader(p)
    \/ \E p \in DOMAIN procs : Extract(p)
    \/ \E p \in DOMAIN procs : Create(p)
    \/ \E p \in DOMAIN procs : Copy(p)
    \/ \E p \in DOMAIN procs : Lock(p)
    \/ \E p \in DOMAIN procs : Publish(p)
    \/ \E p \in DOMAIN procs : Unlock(p)
    \/ \E p \in DOMAIN procs : Lookup(p)
    \/ \E p \in DOMAIN procs : StatFile(p)
    \/ \E p \in DOMAIN procs : ServeFile(p)
    \/ \E p \in DOMAIN procs : ServeStat(p)
    \/ \E p \in DOMAIN procs : ServeContent(p)
    \/ \E p \in DOMAIN procs : Return(p)
    \/ Tick

\* one request at a time, against a remote that serves only well-formed
\* archives without entries that leave the destination
InitServe ==
    /\ Provisioned
    /\ procs = [p \in {1} |-> Idle]
    /\ env = [clients |-> AllRequests, remote |-> {"v1", "v2"}, audit |-> FALSE]
                @@ ServeEnv
    /\ validated = Validate(GitteaURL)

\* branch arguments of a direct call
Branches == {EMPTY, <<"m">>, <<"m", "2">>}

\* serveFile(w, r, owner, repo, filePath, branch) called directly, as the
\* tests of the package do: the branch has not passed through ServeHTTP and
\* can be empty; an error it returns is recorded as the outcome "next"
CallServeFile(p) ==
    /\ procs[p].pc = "idle"
    /\ started < MaxReqs
    /\ started' = started + 1
    /\ \E b \in Branches :
         Set(p, [procs[p] EXCEPT !.pc = "check", !.owner = <<"o">>, !.repo = <<"r">>,
                                 !.filePath = <<"f">>, !.branch = b])
    /\ UNCHANGED <<repos, files, dirs, modes, now, env, validated, mu>>

\* direct calls against a Gitea whose repository reports m2 or no default
\* branch
InitBranch ==
    /\ Provisioned
    /\ procs = [p \in {1} |-> Idle]
    /\ \E rb \in {EMPTY, <<"m", "2">>} :
         env = [clients |-> {}, remote |-> {"v1"}, audit |-> FALSE,
                repoBranch |-> rb] @@ ServeEnv
    /\ validated = Validate(GitteaURL)

NextBranch ==
    \/ \E p \in DOMAIN procs : CallServeFile(p)
    \/ \E p \in DOMAIN procs : RLock(p)
    \/ \E p \in DOMAIN procs : RUnlock(p)
    \/ \E p \in DOMAIN procs : ShouldUpdate(p)
    \/ \E p \in DOMAIN procs : CompareAge(p)
    \/ \E p \in DOMAIN procs : GetRepoInfo(p)
    \/ \E p \in DOMAIN procs : Download(p)
    \/ \E p \in DOMAIN procs : Remove(p)
    \/ \E p \in DOMAIN procs : RemoveRmdir(p)
    \/ \E p \in DOMAIN procs : OpenParent(p)
    \/ \E p \in DOMAIN procs : UnlinkAt(p)
    \/ \E p \in DOMAIN procs : OpenDirAt(p)
    \/ \E p \in DOMAIN procs : ReadDirNames(p)
    \/ \E p \in DOMAIN procs : RmdirAt(p)
    \/ \E p \in DOMAIN procs : MkdirAllStat(p)
    \/ \E p \in DOMAIN procs : Mkdir(p)
    \/ \E p \in DOMAIN procs : NewGzipReader(p)
    \/ \E p \in DOMAIN procs : Extract(p)
    \/ \E p \in DOMAIN procs : Create(p)
    \/ \E p \in DOMAIN procs : Copy(p)
    \/ \E p \in DOMAIN procs : Lock(p)
    \/ \E p \in DOMAIN procs : Publish(p)
    \/ \E p \in DOMAIN procs : Unlock(p)
    \/ \E p \in DOMAIN procs : Lookup(p)
    \/ \E p \in DOMAIN procs : StatFile(p)
    \/ \E p \in DOMAIN procs : ServeFile(p)
    \/ \E p \in DOMAIN procs : ServeStat(p)
    \/ \E p \in DOMAIN procs : ServeContent(p)
    \/ \E p \in DOMAIN procs : Return(p)
    \/ Tick

\* serveFile called with any branch argument
SpecBranch == InitBranch /\ [][NextBranch]_vars

\* one request at a time on a host without mapping, one of them with the
\* path /../x/f, against a server that answers every repository path alike
InitTraversal ==
    /\ Provisioned
    /\ procs = [p \in {1} |-> Idle]
    /\ env = [clients |-> { Req(<<"a">>, <<"/">>),
                            Req(<<"z">>, <<"/", "o", "/", "r", "/", "f">>),
                            Req(<<"z">>, <<"/", ".", ".", "/", "x", "/", "f">>) },
              remote |-> {"v1"}, audit |-> FALSE] @@ ServeEnv
    /\ validated = Validate(GitteaURL)

SpecTraversal == InitTraversal /\ [][Next]_vars

\* the statuses the endpoints of a Gitea answer with
Statuses == {StatusOK, StatusUnauthorized, StatusNotFound, StatusServiceUnavailable}

\* one request at a time, against a Gitea whose metadata endpoint and
\* archive endpoint each answer with one status
InitStatus ==
    /\ Provisioned
    /\ procs = [p \in {1} |-> Idle]
    /\ \E ms \in Statuses, as \in Statuses :
         env = [clients |-> FewRequests, remote |-> {"v1"}, audit |-> FALSE,
                metaStatus |-> ms, archStatus |-> as] @@ ServeEnv
    /\ validated = Validate(GitteaURL)

SpecStatus == InitStatus /\ [][Next]_vars

\* one request at a time, against a remote whose archives break off, are
\* not gzip, leave the destination, name a path twice, or hold directories
\* with mode 0644; the server process is the superuser or is not
InitExtract ==
    /\ Provisioned
    /\ procs = [p \in {1} |-> Idle]
    /\ \E su \in BOOLEAN :
         env = [clients |-> FewRequests,
                remote |-> {"cut", "gz", "esc", "dup", "clash", "part", "shut", "deep"},
                audit |-> FALSE, root |-> su] @@ ServeEnv
    /\ validated = Validate(GitteaURL)

\* one request at a time, archives that fail
SpecExtract == InitExtract /\ [][Next]_vars

\* concurrent requests
Spec == Init /\ [][Next]_vars

\* one request at a time
SpecSeq == InitSeq /\ [][Next]_vars

\* one request at a time, well-formed archives
SpecServe == InitServe /\ [][Next]_vars

\* root and file requests against sites with one, both or no index file
InitIndex ==
    /\ Provisioned
    /\ procs = [p \in {1} |-> Idle]
    /\ env = [clients |-> FewRequests \cup {Req(<<"b">>, <<"/">>)},
              remote |-> {"v1", "v2", "vj", "vij"}, audit |-> FALSE] @@ ServeEnv
    /\ validated = Validate(GitteaURL)

SpecIndex == InitIndex /\ [][Next]_vars

\* a Gitea whose repository requires a token, and a module configured with
\* or without one
InitPrivate ==
    /\ Provisioned
    /\ procs = [p \in {1} |-> Idle]
    /\ \E t \in {EMPTY, <<"k">>} :
         env = [clients |-> AllRequests, remote |-> {"v1"}, audit |-> FALSE,
                url |-> GitteaURL, token |-> t, mappings |-> DomainMappings,
                auto |-> AutoMapping, repoBranch |-> <<"m", "2">>,
                private |-> TRUE] @@ ServeEnv
    /\ validated = Validate(GitteaURL)

SpecPrivate == InitPrivate /\ [][Next]_vars

\* Provision after a restart, while no request is in flight: the map is made
\* anew, over the cache directory as it is on disk
Provision ==
    /\ \A p \in DOMAIN procs : procs[p].pc = "idle"
    /\ LET made == MkdirAll(files, dirs, modes, CacheDir, Mode0755) IN
       /\ MkdirAllOk(made)
       /\ dirs' = made.dirs
       /\ modes' = made.modes
    /\ repos' = [k \in {} |-> NoEntry]
    /\ UNCHANGED <<files, now, procs, started, env, validated, mu>>

NextRestart == Next \/ Provision

\* one request at a time, well-formed archives, and restarts
SpecRestart == InitServe /\ [][NextRestart]_vars

\* Validate, called once after Provision and before any request
ValidateConfig ==
    /\ validated = Pending
    /\ validated' = Validate(env.url)
    /\ UNCHANGED <<repos, files, dirs, modes, now, procs, started, env, mu>>

\* the module right after Provision, for every configuration, with a Gitea
\* that answers no archive request
InitConfig ==
    /\ Provisioned
    /\ procs = [p \in {1} |-> Idle]
    /\ \E u \in Urls, ms \in MappingConfigs, au \in AutoRules :
         env = [clients |-> ConfigRequests, remote |-> {}, audit |-> FALSE,
                url |-> u, token |-> EMPTY, mappings |-> ms, auto |-> au,
                repoBranch |-> EMPTY, private |-> FALSE] @@ ServeEnv
    /\ validated = Pending

\* Validate and the steps of ServeHTTP that can be taken while no archive
\* arrives
NextConfig ==
    \/ ValidateConfig
    \/ \E p \in DOMAIN procs : Begin(p)
    \/ \E p \in DOMAIN procs : RLock(p)
    \/ \E p \in DOMAIN procs : RUnlock(p)
    \/ \E p \in DOMAIN procs : FindIndex(p)
    \/ \E p \in DOMAIN procs : ShouldUpdate(p)
    \/ \E p \in DOMAIN procs : GetRepoInfo(p)
    \/ \E p \in DOMAIN procs : Download(p)
    \/ \E p \in DOMAIN procs : Return(p)
    \/ Tick

\* startup and routing under every configuration
SpecConfig == InitConfig /\ [][NextConfig]_vars

(***************************************************************************)
(* properties                                                              *)
(***************************************************************************)
\* the cache key serveFile looks up: the branch is the argument of the call
ServeKey(me) == CacheKey(RepoKey(me.owner, me.repo), me.branch)

\* the positions inside downloadAndExtractRepo
ExtractPcs ==
    {"download", "reset", "rmdir", "rmparent", "unlinkat", "openat", "getdents",
     "getdents2", "rmdirat", "mkstat", "mkmk", "mklstat", "gzip", "extract",
     "open", "copy"}

\* the goroutine is inside downloadAndExtractRepo for its key
InFlight(p) == procs[p].pc \in ExtractPcs

\* the position is inside updateRepoCache
RefreshPcs == {"getinfo", "lock", "lockwait", "publish", "unlock"} \cup ExtractPcs

\* the position is inside serveFile
ServePcs ==
    {"check", "cread", "cunlock", "age", "lookup", "lread", "lunlock", "stat",
     "serve", "sfstat", "sfindex", "sfistat", "sflist", "sflist2", "sfread"}
        \cup RefreshPcs

\* C1: for any cache key at most one refresh (archive download plus
\* extraction) is in flight at any time.
C1_AtMostOneRefreshPerKey ==
    \A p, q \in DOMAIN procs :
        (p # q /\ InFlight(p) /\ InFlight(q)) => procs[p].key # procs[q].key

\* C2: a refresh that fails leaves the existing entry of the key and every
\* file extracted before exactly as they were when the refresh started.
C2_FailedRefreshKeepsCache ==
    \A p \in DOMAIN procs :
        LET me == procs[p] key == ServeKey(me) IN
        (me.pc = "done" /\ me.err = "update" /\ me.snapEntry # NoEntry) =>
            /\ key \in DOMAIN repos
            /\ repos[key] = me.snapEntry
            /\ \A f \in DOMAIN me.snapTree :
                 f \in DOMAIN files /\ files[f] = me.snapTree[f]

\* the directory holds the complete extraction of one archive
CompleteExtraction(path) ==
    /\ path \in dirs
    /\ \E a \in DOMAIN Archives :
         LET x == ExtractFrom(Archives[a].entries, path, NoFiles, Ancestors(path),
                              [d \in Ancestors(path) |-> Mode0755]) IN
         /\ Archives[a].gzip
         /\ x.ok
         /\ Tree(files, path) = Tree(x.files, path)

\* C3: whenever an entry is visible in the map, the directory it points to
\* exists and is the complete extraction of one archive.
C3_VisibleEntryComplete ==
    \A k \in DOMAIN repos : CompleteExtraction(repos[k].path)

\* C4: extraction never writes a file or creates a directory outside the
\* destination directory of the key, component by component.
C4_ExtractInsideDestination ==
    \A p \in DOMAIN procs :
        procs[p].wrote # EMPTY => IsUnder(procs[p].wrote, KeyPath(procs[p].key))

\* C5: the path handed to http.ServeFile is the entry's path or lies beneath
\* it component by component.
C5_ServedInsideEntry ==
    \A p \in DOMAIN procs :
        procs[p].outcome = "served" =>
            IsUnder(procs[p].fullPath, KeyPath(ServeKey(procs[p])))

\* C6: shouldUpdateCache is true for a key without entry, false right after
\* a refresh published the key, and for an existing entry true exactly when
\* now - lastUpdate > TTL.
C6_NeedsRefresh ==
    [][\A p \in DOMAIN procs :
         LET key == ServeKey(procs[p]) IN
         /\ (procs[p].pc = "cread" /\ procs'[p].pc # "cread") =>
               IF key \notin DOMAIN repos
               THEN ~procs'[p].exists
               ELSE /\ procs'[p].exists
                    /\ procs'[p].seen = repos[key].lastUpdate
         /\ (procs[p].pc = "cunlock" /\ procs'[p].pc # "cunlock") =>
               IF ~procs[p].exists
               THEN procs'[p].need
               ELSE /\ procs'[p].pc = "age"
                    /\ procs'[p].seen = procs[p].seen
         /\ (procs[p].pc = "age" /\ procs'[p].pc # "age") =>
               procs'[p].need = (now - procs[p].seen > CacheTTL)
         /\ (procs[p].pc = "publish" /\ procs'[p].pc = "unlock") =>
               /\ procs[p].key \in DOMAIN repos'
               /\ ~(now' - repos'[procs[p].key].lastUpdate > CacheTTL)]_vars

\* an entry whose age is exactly the TTL was found fresh
C6_Witness ==
    \E p \in DOMAIN procs :
        LET key == ServeKey(procs[p]) IN
        /\ procs[p].pc = "lookup"
        /\ ~procs[p].need
        /\ key \in DOMAIN repos
        /\ procs[p].seen = repos[key].lastUpdate
        /\ now - procs[p].seen = CacheTTL

\* C7: a request whose entry serveFile finds fresh makes no call to the
\* remote API and leaves the map and the disk unchanged; it is served from
\* the entry's directory: the requested path joined onto that directory is
\* handed to the file server whenever it exists inside the directory.
C7_FreshHitFrame ==
    [][\A p \in DOMAIN procs :
         (procs'[p] # procs[p] /\ procs[p].pc \in ServePcs /\ ~procs'[p].need) =>
            /\ procs'[p].pc \notin RefreshPcs
            /\ ~procs'[p].called
            /\ repos' = repos /\ files' = files /\ dirs' = dirs /\ modes' = modes
            /\ procs'[p].pc = "done" =>
                 LET key == ServeKey(procs[p]) IN
                 /\ key \in DOMAIN repos
                 /\ LET full == FilepathJoin(repos[key].path, procs[p].filePath) IN
                    /\ procs'[p].outcome = "served" => procs'[p].fullPath = full
                    /\ (Stat(files, dirs, modes, full) = "ok"
                           /\ IsUnder(full, repos[key].path))
                          => procs'[p].outcome = "served"]_vars

\* a request was served from a fresh entry
C7_Witness ==
    \E p \in DOMAIN procs :
        /\ procs[p].pc = "done"
        /\ procs[p].outcome = "served"
        /\ ~procs[p].need
        /\ ~procs[p].called

\* the key of the repository and branch a request resolves to: the branch
\* of its mapping, or the configured default when that is empty
ResolvedKey(me) == CacheKey(RepoKey(me.owner, me.repo), ServeBranch(me.branch))

\* C8: a request that resolves to a repository without cache entry leads to
\* a fetch from Gitea, whether its path names a file or is the root.
C8_MissLeadsToFetch ==
    \A p \in DOMAIN procs :
        LET me == procs[p] IN
        (me.pc = "done" /\ me.owner # EMPTY /\ me.repo # EMPTY
             /\ ResolvedKey(me) \notin DOMAIN repos) => me.called

\* C9: when the refresh of a key fails and the key had an entry, the request
\* is served from that entry (here: whenever serveFile's own lookup of the
\* requested file in that entry would succeed).
C9_StaleFallback ==
    \A p \in DOMAIN procs :
        LET me == procs[p] IN
        (me.pc = "done" /\ me.err = "update" /\ me.snapEntry # NoEntry
             /\ Locate(repos, files, dirs, modes, ServeKey(me), me.filePath).outcome
                   = "served")
          => me.outcome = "served"

\* C10: every failure in request handling ends in next.ServeHTTP: a request
\* that is not passed on was handed to the file server with a path that
\* exists and lies inside the entry's directory.
C10_FailuresDelegate ==
    \A p \in DOMAIN procs :
        LET me == procs[p] IN
        (me.pc = "done" /\ me.outcome # "next") =>
            /\ Stat(files, dirs, modes, me.fullPath) = "ok"
            /\ IsUnder(me.fullPath, KeyPath(ServeKey(me)))

\* the smallest element of a set of numbers
Min(S) == CHOOSE x \in S : \A y \in S : x <= y

\* the host of a request without its port
HostOf(rhost) ==
    LET colons == {i \in 1..Len(rhost) : rhost[i] = COLON} IN
    IF colons = {} THEN rhost ELSE SubSeq(rhost, 1, Min(colons) - 1)

\* the branch a request carries after ServeHTTP's first part, for the branch
\* override b the resolver returned
Carried(me, b) ==
    IF me.pc \in {"index", "iread", "iunlock", "istat"} \/ me.err = "index"
    THEN b ELSE ServeBranch(b)

\* C11: resolution priority is explicit domain mappings, then auto-mapping,
\* then path-based routing: the first explicit mapping, in configured order,
\* whose domain equals the port-stripped host gives owner, repository and
\* branch even when an enabled auto-mapping rule matches too; without such a
\* mapping a matching auto-mapping rule decides even when the path has an
\* owner and a repository segment; otherwise the path decides.
C11_ResolutionPriority ==
    [][\A p \in DOMAIN procs :
         (procs[p].pc = "idle" /\ procs'[p].pc # "idle") =>
            LET me   == procs'[p]
                host == HostOf(me.host)
                ms   == env.mappings
                hits == {i \in 1..Len(ms) : ms[i].Domain = host}
                am   == resolveAutoMapping(host, Trim(me.path, SLASH), env.auto)
                auto == env.auto.Present /\ env.auto.Enabled /\ am.repo # EMPTY
                segs == Split(Trim(me.path, SLASH), SLASH)
            IN /\ hits # {} =>
                    /\ me.owner = ms[Min(hits)].Owner
                    /\ me.repo = ms[Min(hits)].Repository
                    /\ me.branch = Carried(me, ms[Min(hits)].Branch)
                    /\ me.filePath = Trim(me.path, SLASH)
               /\ (hits = {} /\ auto) =>
                    /\ me.owner = am.owner
                    /\ me.repo = am.repo
                    /\ me.branch = Carried(me, env.auto.Branch)
                    /\ me.filePath = Trim(me.path, SLASH)
               /\ (hits = {} /\ ~auto) =>
                    IF Len(segs) < 2 THEN me.err = "route"
                    ELSE me.owner = segs[1] /\ me.repo = segs[2]]_vars

\* a request to blog.example.com:8080 with a path of four segments, under two
\* mappings of blog.example.com and a matching auto-mapping rule, went to the
\* first of the two mappings
C11_Witness ==
    \E p \in DOMAIN procs :
        LET me == procs[p] IN
        /\ me.pc = "check"
        /\ me.host = HostBlogPort
        /\ me.path = PathAsset
        /\ Cardinality({i \in 1..Len(env.mappings) :
                           env.mappings[i].Domain = HostBlog}) = 2
        /\ env.auto.Present /\ env.auto.Enabled
        /\ resolveAutoMapping(HostBlog, EMPTY, env.auto).repo # EMPTY
        /\ me.owner = <<"o">> /\ me.repo = <<"r">>
        /\ me.branch = DefaultBranch

\* the positions between RLock and RUnlock and between Lock and Unlock
LockedPcs ==
    {"iread", "iunlock", "cread", "cunlock", "lread", "lunlock", "lockwait",
     "publish", "unlock"}

\* the goroutine is about to call RLock or Lock
TakesMu(me) == me.pc \in {"index", "check", "lookup", "lock"}

\* the call of RLock or Lock the goroutine is about to make returns at once
Granted(me) == mu.w = 0 /\ (me.pc = "lock" => mu.r = {})

\* C12: requests for different cache keys never block one another on a
\* download or extraction: gp.cache.mu is held only from an RLock to the
\* RUnlock after the map read and from the Lock to the Unlock around the
\* publish, never by a goroutine that waits for Gitea or extracts an
\* archive, so a request for another key that is about to take the lock
\* while a refresh is inside downloadAndExtractRepo gets it at once.
C12_OtherKeysNotBlocked ==
    /\ \A p \in DOMAIN procs :
          /\ HoldsMu(p) => procs[p].pc \in LockedPcs
          /\ procs[p].pc \in {"getinfo"} \cup ExtractPcs => ~HoldsMu(p)
    /\ \A p, q \in DOMAIN procs :
          (p # q /\ InFlight(p) /\ procs[p].key # ServeKey(procs[q])
              /\ TakesMu(procs[q])) => Granted(procs[q])

\* a request for one key, which needed no refresh, holds the read lock in
\* serveFile and has read its entry from the map, while the refresh of
\* another key is waiting for its archive
C12_Witness ==
    \E p, q \in DOMAIN procs :
        /\ procs[p].pc = "download"
        /\ procs[q].pc = "lunlock"
        /\ q \in mu.r
        /\ procs[q].exists
        /\ ~procs[q].need
        /\ ~procs[q].called
        /\ procs[p].key # ServeKey(procs[q])

\* the request is routed by its path: no domain mapping gives it an owner
\* and a repository
PathRouted(me) ==
    LET m == resolveDomainMapping(me.host, me.path, env.mappings, env.auto) IN
    me.pc # "idle" /\ me.err # "route" /\ (m.owner = EMPTY \/ m.repo = EMPTY)

\* C13: path-based routing fetches and serves the repository's own default
\* branch as Gitea reports it: the archive of a path-routed request is
\* extracted under the key of that branch, and the file served lies in the
\* directory of that key.
C13_PathRoutingUsesRepoBranch ==
    \A p \in DOMAIN procs :
        LET me  == procs[p]
            key == CacheKey(RepoKey(me.owner, me.repo), env.repoBranch)
        IN (PathRouted(me) /\ env.repoBranch # EMPTY) =>
              /\ InFlight(p) => me.key = key
              /\ me.outcome = "served" => IsUnder(me.fullPath, KeyPath(key))

\* C14: the cache survives a restart: a repository extracted before the
\* module was provisioned again is served without a new download until its
\* TTL elapses.  The clock starts at 0, so while now <= CacheTTL no
\* extraction on disk is older than the TTL: no request whose key has a
\* complete extraction on disk then goes to Gitea.
C14_CacheSurvivesRestart ==
    \A p \in DOMAIN procs :
        LET me == procs[p] IN
        (me.pc \in {"getinfo", "download"} /\ now <= CacheTTL) =>
            ~CompleteExtraction(KeyPath(ServeKey(me)))

\* the request has been routed, no explicit mapping has its host as domain,
\* and the enabled auto-mapping rule has this pattern
AutoCase(me, pattern) ==
    /\ me.pc # "idle"
    /\ {i \in 1..Len(env.mappings) : env.mappings[i].Domain = HostOf(me.host)} = {}
    /\ env.auto.Present /\ env.auto.Enabled
    /\ env.auto.Pattern = pattern

\* the dot-separated labels of the request's host
Labels(me) == Split(HostOf(me.host), ".")

\* the request was resolved by the auto-mapping rule to this owner and repo
AutoResolved(me, owner, repo) ==
    /\ me.owner = owner
    /\ me.repo = repo
    /\ me.branch = Carried(me, env.auto.Branch)
    /\ me.filePath = Trim(me.path, SLASH) \/ Trim(me.path, SLASH) = EMPTY

\* the request was routed by its path, or passed on for want of segments
ByPath(me) ==
    LET segs == Split(Trim(me.path, SLASH), SLASH) IN
    IF Len(segs) < 2 THEN me.err = "route"
    ELSE me.owner = segs[1] /\ me.repo = segs[2]
            /\ me.branch = Carried(me, EMPTY)

\* C15 as stated: with the pattern {subdomain}.{domain} every host with at
\* least two labels resolves to the rule's owner and the repo format
\* expanded with the first label, with the rule's branch as override.
C15_SubdomainRule ==
    \A p \in DOMAIN procs :
        LET me == procs[p] IN
        (AutoCase(me, PatSubDotDomain) /\ Len(Labels(me)) >= 2) =>
            AutoResolved(me, env.auto.Owner,
                         formatRepoName(Labels(me)[1], env.auto.RepoFormat))

\* C15, amended: the rule resolves such a host as stated when the rule has
\* an owner and the expanded repo name is not empty; otherwise it yields no
\* mapping and the path decides.
C15_SubdomainRuleWithOwner ==
    \A p \in DOMAIN procs :
        LET me   == procs[p]
            repo == formatRepoName(Labels(me)[1], env.auto.RepoFormat)
        IN (AutoCase(me, PatSubDotDomain) /\ Len(Labels(me)) >= 2) =>
              IF env.auto.Owner # EMPTY /\ repo # EMPTY
              THEN AutoResolved(me, env.auto.Owner, repo)
              ELSE ByPath(me)

\* blog.example.com, format {subdomain}, owner websites: websites/blog on the
\* rule's branch m2
C15_Witness ==
    \E p \in DOMAIN procs :
        LET me == procs[p] IN
        /\ AutoCase(me, PatSubDotDomain)
        /\ me.host = HostBlog
        /\ env.auto.RepoFormat = PatSubdomain
        /\ env.auto.Owner = Websites
        /\ me.owner = Websites
        /\ me.repo = <<"b", "l", "o", "g">>
        /\ me.pc = "check"
        /\ me.branch = <<"m", "2">>

\* C16 as stated: with the pattern {user}.pages.{domain} every host with at
\* least three labels whose second label is pages resolves to owner = the
\* first label, whatever the rule's owner, and repo = the repo format
\* expanded with the whole host; any other host gets no auto-mapping.
C16_UserPagesRuleAsStated ==
    \A p \in DOMAIN procs :
        LET me == procs[p]
            ls == Labels(me)
        IN AutoCase(me, PatUserPages) =>
              IF Len(ls) >= 3 /\ ls[2] = Pages
              THEN AutoResolved(me, ls[1],
                                formatRepoName(HostOf(me.host), env.auto.RepoFormat))
              ELSE ByPath(me)

\* C16, amended: with the pattern {user}.pages.{domain} a host with at least
\* three labels whose second label is pages and whose first label is not
\* empty resolves to owner = the first label, whatever the rule's owner,
\* and repo = the repo format expanded with the whole host; any other host,
\* one with an empty first label included, gets no auto-mapping: the path
\* decides and the rule's branch is not used.
C16_UserPagesRule ==
    \A p \in DOMAIN procs :
        LET me == procs[p]
            ls == Labels(me)
        IN AutoCase(me, PatUserPages) =>
              IF Len(ls) >= 3 /\ ls[2] = Pages /\ ls[1] # EMPTY
              THEN AutoResolved(me, ls[1],
                                formatRepoName(HostOf(me.host), env.auto.RepoFormat))
              ELSE ByPath(me)

\* john.pages.example.com under a rule whose owner is websites:
\* john/john.pages.example.com
C16_Witness ==
    \E p \in DOMAIN procs :
        LET me == procs[p] IN
        /\ AutoCase(me, PatUserPages)
        /\ env.auto.Owner = Websites
        /\ me.host = HostJohn
        /\ me.owner = <<"j", "o", "h", "n">>
        /\ me.repo = HostJohn

\* C17: when no mapping applies, the path without its surrounding slashes
\* is split on "/": the first segment is the owner, the second the
\* repository, the rest joined by "/" the file path (/acme/site/css/a.css
\* gives acme, site, css/a.css); a path with fewer than two segments is
\* passed to the next handler in the same step, without a look at the map,
\* a call to Gitea or a change of the cache.
C17_PathFallback ==
    [][\A p \in DOMAIN procs :
         LET me   == procs'[p]
             m    == resolveDomainMapping(me.host, me.path, env.mappings, env.auto)
             segs == Split(Trim(me.path, SLASH), SLASH)
         IN (procs[p].pc = "idle" /\ me.pc # "idle"
               /\ (m.owner = EMPTY \/ m.repo = EMPTY)) =>
              /\ Len(segs) < 2 =>
                   /\ me.pc = "done" /\ me.outcome = "next"
                   /\ ~me.called
                   /\ repos' = repos /\ files' = files /\ dirs' = dirs
              /\ Len(segs) >= 2 =>
                   /\ me.pc \in {"index", "check"}
                   /\ me.owner = segs[1]
                   /\ me.repo = segs[2]
                   /\ me.filePath = JoinWith(SubSeq(segs, 3, Len(segs)), SLASH)
              /\ me.path = PathAsset =>
                   /\ me.owner = <<"a", "c", "m", "e">>
                   /\ me.repo = <<"s", "i", "t", "e">>
                   /\ me.filePath = <<"c", "s", "s", "/", "a", ".", "c", "s", "s">>]_vars

\* /acme/site/css/a.css on a host without mapping was routed by its path
C17_Witness ==
    \E p \in DOMAIN procs :
        LET me == procs[p] IN
        /\ me.pc = "check"
        /\ me.host = HostLocal
        /\ me.path = PathAsset
        /\ resolveDomainMapping(me.host, me.path, env.mappings, env.auto) = NoMatch
        /\ me.owner = <<"a", "c", "m", "e">>
        /\ me.repo = <<"s", "i", "t", "e">>
        /\ me.filePath = <<"c", "s", "s", "/", "a", ".", "c", "s", "s">>

\* C18: index resolution returns the first name, in the configured order of
\* IndexFiles, that exists in the directory of the entry of the repository
\* under the configured default branch; when no name exists there, or there
\* is no such entry, the request is passed on.
C18_FirstExistingIndex ==
    [][\A p \in DOMAIN procs :
         (procs[p].pc \in {"index", "iread", "iunlock", "istat"}
             /\ procs'[p].pc \notin {"index", "iread", "iunlock", "istat"}) =>
            LET me    == procs[p]
                key   == CacheKey(RepoKey(me.owner, me.repo), DefaultBranch)
                found == {i \in 1..Len(IndexFiles) :
                            /\ key \in DOMAIN repos
                            /\ FilepathJoin(repos[key].path, IndexFiles[i])
                                  \in DOMAIN files \cup dirs}
            IN IF found = {}
               THEN procs'[p].pc = "done" /\ procs'[p].outcome = "next"
               ELSE /\ procs'[p].pc = "check"
                    /\ procs'[p].filePath = IndexFiles[Min(found)]]_vars

\* both index files are in the directory of o/r:m and the root request got
\* the first name
C18_Witness ==
    \E p \in DOMAIN procs :
        LET root == KeyPath(CacheKey(RepoKey(<<"o">>, <<"r">>), DefaultBranch)) IN
        /\ procs[p].path = <<"/">>
        /\ procs[p].pc = "check"
        /\ procs[p].filePath = IndexFiles[1]
        /\ \A i \in 1..Len(IndexFiles) :
              FilepathJoin(root, IndexFiles[i]) \in DOMAIN files

\* C19: content of a repository whose API requires a token is never served
\* when no token is configured: no Authorization header is sent, Gitea
\* answers neither the metadata nor the archive request with 200, so no
\* refresh gets to the download of an archive, nothing is extracted or
\* published, and every request that called Gitea is passed to the next
\* handler.
C19_NoTokenNoContent ==
    (env.private /\ env.token = EMPTY) =>
        /\ AuthHeader(env.token) = EMPTY
        /\ repos = [k \in {} |-> NoEntry]
        /\ files = NoFiles
        /\ \A p \in DOMAIN procs :
             /\ procs[p].outcome # "served"
             /\ ~InFlight(p)
             /\ (procs[p].pc = "done" /\ procs[p].called) =>
                   procs[p].outcome = "next" /\ procs[p].err = "update"

\* without a token a request for a file of the private repository called
\* Gitea and was passed on
C19_Witness ==
    \E p \in DOMAIN procs :
        /\ env.private /\ env.token = EMPTY
        /\ procs[p].pc = "done"
        /\ procs[p].called
        /\ procs[p].outcome = "next"
        /\ procs[p].err = "update"

\* C20: Validate returns the error "gitea_url is required" exactly when the
\* configured Gitea URL is empty, and no error for any other URL.
C20_ValidateURL ==
    validated # Pending =>
        /\ (validated = ErrURLRequired) <=> (env.url = EMPTY)
        /\ (validated = NoError) <=> (env.url # EMPTY)

\* Validate rejected the empty URL
C20_Witness ==
    /\ env.url = EMPTY
    /\ validated = ErrURLRequired

\* C21: a refresh extracts into a new directory and never modifies the
\* published directory in place, and the map never points at a directory
\* that was deleted: the directory a refresh has emptied and extracts into is
\* the path of no entry of the map, and the path of every entry is a
\* directory on disk.
C21_PublishThenCleanup ==
    /\ \A p \in DOMAIN procs : \A k \in DOMAIN repos :
          procs[p].pc = "extract" => repos[k].path # KeyPath(procs[p].key)
    /\ \A k \in DOMAIN repos : repos[k].path \in dirs

\* the entries of an archive that have more than one path segment and this
\* type
EntriesOf(a, typ) ==
    {i \in 1..Len(Archives[a].entries) :
        /\ Archives[a].entries[i].typ = typ
        /\ Len(Split(Archives[a].entries[i].name, SLASH)) > 1}

\* the bytes the file entries es leave in the file q beneath path: each
\* entry of that target writes the bytes that arrive from offset 0 on into
\* what is there, in the order of the archive
RECURSIVE Written(_, _, _, _)
Written(es, path, q, old) ==
    IF Len(es) = 0 THEN old
    ELSE LET e == Head(es) IN
         Written(Tail(es), path, q,
                 IF e.typ = TypeReg /\ TargetPath(e.name, path) = q
                 THEN WriteBytes(old, 0, Arrived(e))
                 ELSE old)

\* the regular files of an archive beneath path, first segment stripped,
\* each with the bytes its entries leave in a file that did not exist
ArchiveFiles(a, path) ==
    LET es     == Archives[a].entries
        at(i)  == TargetPath(es[i].name, path)
        regs   == {i \in EntriesOf(a, TypeReg) : IsUnder(at(i), path)}
    IN [q \in {at(i) : i \in regs} |-> Written(es, path, q, <<>>)]

\* the directories of an archive beneath path: path, the directory entries
\* and the directories above each entry
ArchiveDirs(a, path) ==
    LET es    == Archives[a].entries
        at(i) == TargetPath(es[i].name, path)
    IN {d \in UNION ({Ancestors(at(i)) : i \in EntriesOf(a, TypeDir)}
                       \cup {Ancestors(Dir(at(i))) : i \in EntriesOf(a, TypeReg)}
                       \cup {{path}}) : IsUnder(d, path)}

\* C22: when a refresh publishes its key, the directory of the key holds
\* exactly the regular files and directories of the downloaded archive,
\* first path segment stripped: nothing is missing and nothing of an earlier
\* archive remains.
C22_ExactExtraction ==
    [][\A p \in DOMAIN procs :
         (procs[p].pc = "publish" /\ procs'[p].pc = "unlock") =>
            LET path == KeyPath(procs[p].key) IN
            /\ Tree(files', path) = ArchiveFiles(procs[p].arch, path)
            /\ {d \in dirs' : IsUnder(d, path)} = ArchiveDirs(procs[p].arch, path)]_vars

\* goroutine p is about to read the entry at its position in the archive
AtEntry(p) ==
    /\ procs[p].pc = "extract"
    /\ procs[p].pos <= Len(Archives[procs[p].arch].entries)

\* the entry goroutine p is about to read or is working on
EntryOf(p) == Archives[procs[p].arch].entries[procs[p].pos]

\* goroutine p takes a step
Steps(p) == procs'[p] # procs[p]

\* C23: an archive entry whose target path lies outside the extraction
\* directory is skipped without failing the extraction: processing it changes
\* no file and no directory, and the loop goes on to the next entry.
C23_EscapingEntrySkipped ==
    [][\A p \in DOMAIN procs :
         (/\ AtEntry(p) /\ Steps(p)
          /\ EntryOf(p).typ \in {TypeReg, TypeDir}
          /\ TargetPath(EntryOf(p).name, KeyPath(procs[p].key)) # EMPTY
          /\ ~IsUnder(TargetPath(EntryOf(p).name, KeyPath(procs[p].key)),
                      KeyPath(procs[p].key)))
         => /\ files' = files
            /\ dirs' = dirs
            /\ procs'[p].pc = "extract"
            /\ procs'[p].pos = procs[p].pos + 1]_vars

\* the stream goroutine p reads cannot be read at its position: the body is
\* not gzip, the tar reader reports an error, or the stream breaks inside
\* the bytes of a file, after those that arrived have been written
ReadFails(p) ==
    \/ procs[p].pc = "gzip" /\ ~Archives[procs[p].arch].gzip
    \/ AtEntry(p) /\ EntryOf(p).typ = TarError
    \/ /\ procs[p].pc = "copy"
       /\ procs[p].off = EntryOf(p).arrive
       /\ EntryOf(p).arrive < Len(EntryOf(p).data)

\* the system call goroutine p is about to make makes os.MkdirAll or
\* os.OpenFile return an error: os.Stat finds a regular file where a
\* directory is to be, os.Lstat after a failed os.Mkdir finds no directory
\* (the directory above has been removed or may not be searched or
\* changed), or the file cannot be created or opened for writing
CreationFails(p) ==
    LET me == procs[p] IN
    \/ /\ me.pc = "mkstat"
       /\ Stat(files, dirs, modes, me.at) = "ok"
       /\ me.at \in DOMAIN files
    \/ /\ me.pc = "mklstat"
       /\ ~(Stat(files, dirs, modes, me.at) = "ok" /\ me.at \in dirs)
    \/ /\ me.pc = "open"
       /\ ~OpenFile(files, dirs, modes,
                    TargetPath(EntryOf(p).name, KeyPath(me.key)),
                    EntryOf(p).mode).ok

\* C24: an error while reading the gzip or tar stream, or while creating a
\* directory or a file, ends the extraction at once; the refresh returns the
\* error (the request is passed on with an update error) and the map is left
\* as it was.
C24_ExtractionErrorAborts ==
    [][\A p \in DOMAIN procs :
         (Steps(p) /\ (ReadFails(p) \/ CreationFails(p))) =>
            /\ procs'[p].pc = "done"
            /\ procs'[p].outcome = "next"
            /\ procs'[p].err = "update"
            /\ repos' = repos]_vars

\* a refresh of o/r:m2 ended at the third entry of archive esc, a directory
\* where the first entry had put a file; nothing was published
C24_Witness ==
    \E p \in DOMAIN procs :
        /\ procs[p].pc = "done" /\ procs[p].err = "update"
        /\ procs[p].arch = "esc" /\ procs[p].pos = 3
        /\ procs[p].key \notin DOMAIN repos
        /\ KeyPath(procs[p].key) \o <<"/", "f">> \in DOMAIN files

\* C25: an entry that is neither a regular file nor a directory (a symbolic
\* link) is skipped without error: processing it creates nothing and the loop
\* goes on to the next entry.
C25_OtherTypesSkipped ==
    [][\A p \in DOMAIN procs :
         (AtEntry(p) /\ Steps(p)
            /\ EntryOf(p).typ \notin {TypeReg, TypeDir, TarError}) =>
            /\ files' = files
            /\ dirs' = dirs
            /\ procs'[p].pc = "extract"
            /\ procs'[p].pos = procs[p].pos + 1]_vars

\* the extraction of archive esc is past its symbolic link t/s, and nothing
\* exists at s
C25_Witness ==
    \E p \in DOMAIN procs :
        /\ procs[p].pc = "extract" /\ procs[p].arch = "esc" /\ procs[p].pos = 5
        /\ KeyPath(procs[p].key) \o <<"/", "s">> \notin DOMAIN files \cup dirs

\* C26: after a regular file entry has been extracted, the file holds
\* exactly the bytes of the entry, whatever was at that path before.
C26_FileHoldsEntryBytes ==
    [][\A p \in DOMAIN procs :
         (procs[p].pc = "copy" /\ procs'[p].pc = "extract") =>
            /\ procs[p].wrote \in DOMAIN files'
            /\ files'[procs[p].wrote] = EntryOf(p).data]_vars

\* the key a refresh by goroutine p has to use: the branch argument, else
\* the default branch of the repository metadata, else the module's
RefreshKey(p) ==
    LET arg == procs[p].branch
        b == IF arg # EMPTY THEN arg
             ELSE IF env.repoBranch # EMPTY THEN env.repoBranch
             ELSE DefaultBranch
    IN CacheKey(RepoKey(procs[p].owner, procs[p].repo), b)

\* C27: the branch a refresh downloads and publishes under is the branch
\* argument when it is non-empty, otherwise the default branch of the
\* repository metadata when that is non-empty, otherwise the module's
\* configured default branch.
C27_RefreshBranch ==
    [][\A p \in DOMAIN procs :
         /\ (procs[p].pc = "getinfo" /\ procs'[p].pc = "download")
               => procs'[p].key = RefreshKey(p)
         /\ (procs[p].pc = "publish" /\ procs'[p].pc = "unlock")
               => /\ procs[p].key = RefreshKey(p)
                  /\ DOMAIN repos' = DOMAIN repos \cup {RefreshKey(p)}
                  /\ repos'[RefreshKey(p)].path = KeyPath(RefreshKey(p))]_vars

\* a call without a branch argument has published the repository's default
\* branch m2, which is not the module's
C27_Witness ==
    \E p \in DOMAIN procs :
        /\ procs[p].pc = "lookup" /\ procs[p].branch = EMPTY
        /\ env.repoBranch = <<"m", "2">>
        /\ DOMAIN repos = {CacheKey(RepoKey(<<"o">>, <<"r">>), <<"m", "2">>)}

\* the request is past ServeHTTP's choice of branch: serveFile was called
Serving(me) ==
    \/ me.pc \in ServePcs
    \/ me.pc = "done" /\ me.err \notin {"route", "index"}

\* the branch given by what matched the request: the first explicit mapping
\* of its host, else the enabled auto-mapping rule if it yields a repository,
\* else none (routing by path)
RuleBranch(me) ==
    LET host == HostOf(me.host)
        ms   == env.mappings
        hits == {i \in 1..Len(ms) : ms[i].Domain = host}
        am   == resolveAutoMapping(host, Trim(me.path, SLASH), env.auto)
    IN IF hits # {} THEN ms[Min(hits)].Branch
       ELSE IF env.auto.Present /\ env.auto.Enabled /\ am.repo # EMPTY
       THEN env.auto.Branch
       ELSE EMPTY

\* C28: the branch a request is served from is the branch of the explicit
\* mapping or auto-mapping rule that matched it when that is non-empty, and
\* the module's configured default branch otherwise; for a request routed
\* by its path it is always the configured default.
C28_ServeBranch ==
    \A p \in DOMAIN procs :
        Serving(procs[p]) =>
            procs[p].branch = IF RuleBranch(procs[p]) # EMPTY
                              THEN RuleBranch(procs[p]) ELSE DefaultBranch

\* a request matched by an auto-mapping rule with branch m2 is served from
\* m2, not from the module's default
C28_Witness ==
    \E p \in DOMAIN procs :
        /\ procs[p].pc = "getinfo"
        /\ AutoCase(procs[p], PatSubDotDomain)
        /\ env.auto.Branch = <<"m", "2">>
        /\ RuleBranch(procs[p]) = <<"m", "2">>
        /\ procs[p].branch = <<"m", "2">>
        /\ procs[p].branch # DefaultBranch

\* the refresh of goroutine p returns an error at this step
UpdateFails(p) ==
    /\ procs'[p].pc = "done"
    /\ procs'[p].outcome = "next"
    /\ procs'[p].err = "update"
    /\ UNCHANGED <<repos, files, dirs, modes>>

\* C29: a status other than 200 from the repository metadata endpoint or
\* from the archive endpoint makes updateRepoCache return an error, whatever
\* the status is (503, 401, 404), and no cache entry is published: the
\* request is passed on with an update error and the map stays as it was.
C29_Non200IsError ==
    [][/\ \A p \in DOMAIN procs :
            /\ (procs[p].pc = "getinfo" /\ Steps(p) /\ env.metaStatus # StatusOK)
                  => UpdateFails(p)
            /\ (procs[p].pc = "download" /\ Steps(p) /\ env.archStatus # StatusOK)
                  => UpdateFails(p)
       /\ (env.metaStatus # StatusOK \/ env.archStatus # StatusOK)
             => DOMAIN repos' = {}]_vars

\* the metadata endpoint answered 200 and the archive endpoint 404: the
\* refresh failed after getRepoInfo and nothing is published
C29_Witness ==
    \E p \in DOMAIN procs :
        /\ procs[p].pc = "done" /\ procs[p].err = "update"
        /\ procs[p].key # EMPTY
        /\ env.metaStatus = StatusOK /\ env.archStatus = StatusNotFound
        /\ DOMAIN repos = {}

\* shouldUpdateCache has found the key of the request absent from the map,
\* or is about to find the entry it has read older than the TTL
AbsentOrStale(me) ==
    \/ me.pc = "cunlock" /\ ~me.exists
    \/ me.pc = "age" /\ now - me.seen > CacheTTL

\* C30: there is no backoff after a failed refresh: whatever happened
\* before, a request whose key is absent or stale when serveFile checks the
\* cache starts a new refresh attempt, beginning with the metadata request.
C30_NoBackoff ==
    [][\A p \in DOMAIN procs :
         /\ (Steps(p) /\ AbsentOrStale(procs[p]))
               => procs'[p].pc = "getinfo" /\ procs'[p].need
         /\ (Steps(p) /\ procs[p].pc = "cread")
               => /\ procs'[p].exists = (ServeKey(procs[p]) \in DOMAIN repos)
                  /\ procs'[p].exists
                        => procs'[p].seen = repos[ServeKey(procs[p])].lastUpdate
         /\ (Steps(p) /\ procs[p].pc = "cunlock" /\ ~AbsentOrStale(procs[p]))
               => /\ procs'[p].pc = "age"
                  /\ procs'[p].seen = procs[p].seen]_vars

\* a new refresh of o/r:m has started although an earlier one failed: the
\* key is still absent, and the file the broken archive cut left behind is
\* on disk
C30_Witness ==
    \E p \in DOMAIN procs :
        /\ procs[p].pc = "getinfo"
        /\ ServeKey(procs[p]) \notin DOMAIN repos
        /\ KeyPath(ServeKey(procs[p])) \o <<"/", "f">> \in DOMAIN files
        /\ files[KeyPath(ServeKey(procs[p])) \o <<"/", "f">>] = <<3>>

\* the enabled auto-mapping rule yields no owner or no repository for the
\* request's host: the rule has no owner (and the pattern takes none from
\* the host), or the host has too few labels for the pattern
YieldsNothing(me) ==
    LET ls == Labels(me) IN
    \/ env.auto.Pattern # PatUserPages /\ env.auto.Owner = EMPTY
    \/ env.auto.Pattern = PatSubDotDomain /\ Len(ls) < 2
    \/ env.auto.Pattern = PatUserPages
          /\ ~(Len(ls) >= 3 /\ ls[2] = Pages /\ ls[1] # EMPTY)

\* C31: when the enabled auto-mapping rule yields an empty owner or an empty
\* repository, the resolver returns the empty tuple and the request is
\* resolved by its path segments: the rule gives it neither owner nor
\* repository nor branch.
C31_EmptyAutoMappingFallsBack ==
    \A p \in DOMAIN procs :
        LET me == procs[p] IN
        (\E pat \in {PatDomain, PatSubDotDomain, PatUserPages, PatCustom, PatProject} :
            AutoCase(me, pat) /\ YieldsNothing(me)) =>
            /\ resolveDomainMapping(me.host, me.path, env.mappings, env.auto) = NoMatch
            /\ ByPath(me)

\* localhost under an enabled {subdomain}.{domain} rule with owner and
\* branch m2: the request was routed by its path and is served from the
\* default branch
C31_Witness ==
    \E p \in DOMAIN procs :
        LET me == procs[p] IN
        /\ AutoCase(me, PatSubDotDomain)
        /\ me.host = HostLocal
        /\ env.auto.Owner = Websites
        /\ env.auto.Branch = <<"m", "2">>
        /\ me.path = PathAsset
        /\ me.pc = "check"
        /\ me.owner = <<"a", "c", "m", "e">>
        /\ me.repo = <<"s", "i", "t", "e">>
        /\ me.branch = DefaultBranch

\* blog@blog.example.com
BlogAtBlog == <<"b", "l", "o", "g", "@">> \o HostBlog

\* the repository name of a custom pattern: the pattern with {domain}
\* replaced by the host and {subdomain} by the host's first label
CustomRepo(me) ==
    ReplaceAll(ReplaceAll(env.auto.Pattern, PatDomain, HostOf(me.host)),
               PatSubdomain, Labels(me)[1])

\* C32: for a pattern that is none of the three built-in patterns the
\* repository name is the pattern itself with {domain} replaced by the host
\* and {subdomain} by the host's first label, the owner is the rule's owner
\* and the repo format is not applied; a request for such a rule with an
\* owner is resolved to that owner and repository (blog.example.com under
\* {subdomain}@{domain} gives blog@blog.example.com).
C32_CustomPattern ==
    \A p \in DOMAIN procs :
        LET me == procs[p] IN
        \A pat \in {PatCustom, PatProject} :
            AutoCase(me, pat) =>
               /\ AutoRepoOwner(HostOf(me.host), env.auto)
                     = [repo |-> CustomRepo(me), owner |-> env.auto.Owner]
               /\ pat = PatProject => CustomRepo(me) = PatProject
               /\ (pat = PatCustom /\ HostOf(me.host) = HostBlog)
                     => CustomRepo(me) = BlogAtBlog
               /\ IF env.auto.Owner # EMPTY
                  THEN AutoResolved(me, env.auto.Owner, CustomRepo(me))
                  ELSE ByPath(me)

\* blog.example.com:8080 under the rule {subdomain}@{domain} with owner
\* websites and format {subdomain}-s: websites/blog@blog.example.com
C32_Witness ==
    \E p \in DOMAIN procs :
        LET me == procs[p] IN
        /\ AutoCase(me, PatCustom)
        /\ env.auto.RepoFormat = FormatSuffix
        /\ me.host = HostBlogPort
        /\ me.pc = "check"
        /\ me.owner = Websites
        /\ me.repo = BlogAtBlog

\* the format read once from left to right, each {domain}, {subdomain} and
\* {input} in it replaced by the input and every other character kept
RECURSIVE Expand(_, _)
Expand(format, input) ==
    IF Len(format) = 0 THEN <<>>
    ELSE IF \E pat \in {PatDomain, PatSubdomain, PatInput} : HasPrefix(format, pat)
    THEN LET pat == CHOOSE x \in {PatDomain, PatSubdomain, PatInput} :
                       HasPrefix(format, x)
         IN input \o Expand(SubSeq(format, Len(pat) + 1, Len(format)), input)
    ELSE <<Head(format)>> \o Expand(Tail(format), input)

\* C33: formatRepoName returns its input for an empty format, and otherwise
\* the format with every occurrence of {domain}, {subdomain} and {input}
\* replaced by the input and all other characters kept; stated for the
\* inputs resolveAutoMapping passes: the request's host and its first label.
C33_FormatRepoName ==
    \A p \in DOMAIN procs :
        LET me == procs[p] IN
        (me.pc # "idle" /\ env.auto.Present) =>
            \A input \in {HostOf(me.host), Labels(me)[1]} :
                formatRepoName(input, env.auto.RepoFormat)
                   = IF env.auto.RepoFormat = EMPTY THEN input
                     ELSE Expand(env.auto.RepoFormat, input)

\* the request is a root request: its URL path has no file path
RootRequest(me) == me.pc # "idle" /\ Trim(me.path, SLASH) = EMPTY

\* C34: for a root request the index file name chosen by index resolution
\* exists in the cache entry the file is then served from: once a name is
\* chosen, the lookup in the entry of the request's branch finds the file.
C34_IndexExistsWhereServed ==
    \A p \in DOMAIN procs :
        LET me == procs[p] IN
        (RootRequest(me) /\ me.pc = "done" /\ me.filePath # EMPTY) =>
            me.err \notin {"notfound", "nocache"}

\* C35: for every owner and repository taken from a request path or a
\* mapping, the directory a refresh deletes and extracts into and the path of
\* every published entry lie inside the cache root directory.
C35_InsideCacheRoot ==
    /\ \A k \in DOMAIN repos : IsUnder(repos[k].path, CacheDir)
    /\ \A p \in DOMAIN procs :
          procs[p].pc \in ExtractPcs \ {"download"} =>
              IsUnder(KeyPath(procs[p].key), CacheDir)

\* C36: when the metadata request or the archive request fails or is
\* answered with a status other than 200, the refresh returns before it
\* touches local state: the step leaves the cache map, every file and every
\* directory as they were, and against endpoints that never answer 200 the
\* disk stays as Provision left it.
C36_FailedRequestTouchesNothing ==
    [][/\ \A p \in DOMAIN procs :
            (procs[p].pc \in {"getinfo", "download"} /\ procs'[p].pc = "done")
               => UNCHANGED <<repos, files, dirs, modes>>
       /\ (env.metaStatus # StatusOK \/ env.archStatus # StatusOK)
             => files' = NoFiles /\ dirs' = Ancestors(CacheDir)]_vars

\* the refresh of a stale key failed at the archive request: the entry and
\* the tree extracted from v1 before are still there
C36_Witness ==
    \E p \in DOMAIN procs :
        /\ procs[p].pc = "done" /\ procs[p].err = "update"
        /\ procs[p].need
        /\ procs[p].key \in DOMAIN repos
        /\ procs[p].arch = ""
        /\ Tree(files, KeyPath(procs[p].key)) = ArchiveFiles("v1", KeyPath(procs[p].key))

\* C37: within serveFile the key under which a successful refresh publishes
\* its entry is the key looked up right afterwards, for every branch value
\* passed in, the empty branch included: the publish step leaves an entry
\* under the key of the branch argument, with the publish time.
C37_PublishedKeyIsLookedUp ==
    [][\A p \in DOMAIN procs :
         (procs[p].pc = "publish" /\ procs'[p].pc = "unlock") =>
            LET key == CacheKey(RepoKey(procs[p].owner, procs[p].repo),
                                procs[p].branch)
            IN /\ key \in DOMAIN repos'
               /\ repos'[key].lastUpdate = now]_vars

\* C38: each ServeHTTP call ends in exactly one of two outcomes: the file is
\* streamed by this module and the next handler is not called, or the next
\* handler is called and this module writes nothing.  A finished call that
\* was not passed on was answered by the file server with the file, with the
\* page of a directory or with a redirect to its canonical URL, and not with
\* an error response; a call that was passed on handed it nothing.
C38_ServedOrDeclined ==
    \A p \in DOMAIN procs :
        LET me == procs[p] IN
        me.pc = "done" =>
            \/ /\ me.outcome = "served"
               /\ me.sent \in {"file", "dir", "redirect-dir", "redirect-index"}
            \/ me.outcome = "next" /\ me.err # "" /\ me.sent = ""

\* C39: request handling never removes a key from the cache map and the
\* lastUpdate of a key never decreases: a key that has an entry keeps one, and
\* each successful refresh replaces the entry of its key by one whose
\* lastUpdate is the time of the publish, leaving the other entries alone.
C39_EntriesKeptAndStamped ==
    [][/\ \A k \in DOMAIN repos :
            /\ k \in DOMAIN repos'
            /\ repos'[k].lastUpdate >= repos[k].lastUpdate
       /\ \A p \in DOMAIN procs :
            (procs[p].pc = "publish" /\ procs'[p].pc = "unlock") =>
               /\ procs[p].key \in DOMAIN repos'
               /\ repos'[procs[p].key].lastUpdate = now
               /\ \A k \in DOMAIN repos \ {procs[p].key} : repos'[k] = repos[k]]_vars

\* a refresh has just published its key at time 2 while the entry another
\* key got at time 0 is still in the map
C39_Witness ==
    \E p \in DOMAIN procs :
        /\ procs[p].pc = "lookup" /\ procs[p].need
        /\ procs[p].key \in DOMAIN repos
        /\ repos[procs[p].key].lastUpdate = 2
        /\ \E k \in DOMAIN repos \ {procs[p].key} : repos[k].lastUpdate = 0

====
